---------------------------- MODULE Spec2Model ----------------------------
(***************************************************************************)
(* A model of src/main.py, the INE/IFE voter-card OCR service: the field   *)
(* extraction core (line normaliser, identifier decoders, name and         *)
(* validity extractors, field assembler) as operators over strings, and    *)
(* the OCR supervisor and the /ocr endpoint as a state machine.            *)
(*                                                                         *)
(* Strings are TLA+ strings, read as sequences of characters; a regular    *)
(* expression of the source is a sequence of quantified character classes  *)
(* matched with Python's leftmost, greedy-first backtracking order.        *)
(***************************************************************************)
EXTENDS Integers, Sequences, FiniteSets, TLC

VARIABLES
    anio_actual,      \* datetime.now().year, frozen for a run
    curp,             \* argument of extraer_datos_desde_curp and of the name splitter
    clave,            \* argument of extraer_datos_desde_clave_elector
    texts,            \* the OCR line list handed to an extractor
    tipo_credencial,  \* the credential type handed to an extractor
    nombre_a_separar, \* the nombre argument of separar_nombre_por_curp_y_tokens
    data,             \* the JSON body of a /separar-nombre request
    pc,               \* "start", then the name of the function that ran
    ret,              \* what that function returned or raised
    rpc,              \* per /ocr request: where its handler stands
    peticion,         \* per request: the uploaded file and the debug argument
    proceso,          \* per request: the state of its OCR worker process
    out_q,            \* the result queues, one per call of the supervisor
    transcurrido,     \* per request: the seconds since p.start()
    plazo,            \* per request: the value of transcurrido at which the join in progress gives up
    payload,          \* per request: what get_nowait() handed to the supervisor
    ocr_ret,          \* per request: what the supervisor returned or raised
    respuesta,        \* per request: the HTTP response
    vivo_al_vencer,   \* per request: the worker was alive when join(timeout_seconds) returned
    vivo_al_comprobar \* per request: the worker was alive when is_alive() was called

ocr_vars == <<rpc, peticion, proceso, out_q, transcurrido, plazo, payload, ocr_ret,
              respuesta, vivo_al_vencer, vivo_al_comprobar>>

pure_vars ==
    <<anio_actual, curp, clave, texts, tipo_credencial, nombre_a_separar, data, pc, ret>>

vars == <<pure_vars, ocr_vars>>

-----------------------------------------------------------------------------
(* Characters and Python's string primitives *)

Ch(s, i) == SubSeq(s, i, i)

CharsOf(s) == {Ch(s, i) : i \in 1..Len(s)}

AZ == CharsOf("ABCDEFGHIJKLMNOPQRSTUVWXYZ")

AcentosMayus == CharsOf("ÁÉÍÓÚÜÑ")

Digits == CharsOf("0123456789")

\* \s of the re module, on the characters the model feeds it
Whitespace == {" ", "\t", "\n"}

\* \w of the re module: letters, digits and the underscore
Word ==
    AZ \cup CharsOf("abcdefghijklmnopqrstuvwxyz") \cup AcentosMayus \cup CharsOf("áéíóúüñ")
       \cup Digits \cup {"_"}

MinOf(S) == CHOOSE x \in S : \A y \in S : x <= y

\* s[a:b] of Python for 0 <= a <= b: the characters at offsets a .. b-1 that exist
Slice(s, a, b) ==
    LET hi == IF b < Len(s) THEN b ELSE Len(s)
    IN  IF a >= hi THEN "" ELSE SubSeq(s, a + 1, hi)

UpperTable ==
    LET lo == "abcdefghijklmnopqrstuvwxyzáéíóúüñ"
        up == "ABCDEFGHIJKLMNOPQRSTUVWXYZÁÉÍÓÚÜÑ"
    IN  [c \in CharsOf(lo) |-> Ch(up, CHOOSE i \in 1..Len(lo) : Ch(lo, i) = c)]

RECURSIVE Upper(_)
\* str.upper()
Upper(s) ==
    IF s = "" THEN ""
    ELSE (IF Ch(s, 1) \in DOMAIN UpperTable THEN UpperTable[Ch(s, 1)] ELSE Ch(s, 1))
            \o Upper(Tail(s))

\* str.strip()
Strip(s) ==
    LET keep == {i \in 1..Len(s) : Ch(s, i) \notin Whitespace}
    IN  IF keep = {} THEN "" ELSE SubSeq(s, MinOf(keep), -MinOf({-i : i \in keep}))

RECURSIVE CollapseWs(_)
\* re.sub(r'\s+', ' ', s)
CollapseWs(s) ==
    IF s = "" THEN ""
    ELSE IF Ch(s, 1) \in Whitespace
    THEN LET rest == {i \in 1..Len(s) : Ch(s, i) \notin Whitespace}
         IN  IF rest = {} THEN " "
             ELSE " " \o CollapseWs(SubSeq(s, MinOf(rest), Len(s)))
    ELSE Ch(s, 1) \o CollapseWs(Tail(s))

RECURSIVE ReplaceChar(_, _, _)
\* s.replace(c, by) for a one-character c
ReplaceChar(s, c, by) ==
    IF s = "" THEN ""
    ELSE (IF Ch(s, 1) = c THEN by ELSE Ch(s, 1)) \o ReplaceChar(Tail(s), c, by)

RECURSIVE Split(_)
\* the words of a stripped text t whose whitespace stands at the indices ws
SplitAt(t, ws) ==
    IF ws = {} THEN <<t>>
    ELSE <<SubSeq(t, 1, MinOf(ws) - 1)>> \o Split(SubSeq(t, MinOf(ws), Len(t)))

SplitStripped(t) ==
    IF t = "" THEN <<>> ELSE SplitAt(t, {i \in 1..Len(t) : Ch(t, i) \in Whitespace})

\* s.split(): the maximal runs of non-whitespace characters
Split(s) == SplitStripped(Strip(s))

RECURSIVE Join(_, _)
\* sep.join(parts)
Join(parts, sep) ==
    IF parts = <<>> THEN ""
    ELSE IF Len(parts) = 1 THEN parts[1]
    ELSE parts[1] \o sep \o Join(Tail(parts), sep)

RECURSIVE KeepChars(_, _)
\* re.sub('[^...]', '', s): the characters of s that are in cs
KeepChars(s, cs) ==
    IF s = "" THEN ""
    ELSE (IF Ch(s, 1) \in cs THEN Ch(s, 1) ELSE "") \o KeepChars(Tail(s), cs)

\* any(ch.isdigit() for ch in s)
HasDigit(s) == \E i \in 1..Len(s) : Ch(s, i) \in Digits

\* s.isdigit()
AllDigits(s) == s # "" /\ \A i \in 1..Len(s) : Ch(s, i) \in Digits

\* sub in s
Contains(s, sub) ==
    \E i \in 1..(Len(s) - Len(sub) + 1) : SubSeq(s, i, i + Len(sub) - 1) = sub

RECURSIVE DigitsValue(_)
\* the number a string of decimal digits denotes
DigitsValue(s) ==
    IF s = "" THEN 0
    ELSE 10 * DigitsValue(SubSeq(s, 1, Len(s) - 1))
            + (CHOOSE d \in 0..9 : Ch("0123456789", d + 1) = Ch(s, Len(s)))

\* digits with single underscores between them
DigitsWithUnderscores(body) ==
    /\ Len(body) > 0
    /\ Ch(body, 1) \in Digits
    /\ Ch(body, Len(body)) \in Digits
    /\ \A i \in 1..Len(body) : Ch(body, i) \in Digits \cup {"_"}
    /\ \A i \in 1..(Len(body) - 1) : ~(Ch(body, i) = "_" /\ Ch(body, i + 1) = "_")

PyIntBody(body, neg) ==
    IF DigitsWithUnderscores(body)
    THEN [ok |-> TRUE, val |-> (IF neg THEN -1 ELSE 1) * DigitsValue(KeepChars(body, Digits))]
    ELSE [ok |-> FALSE, val |-> 0]

PyIntSigned(t, sgn) == PyIntBody(IF sgn THEN Tail(t) ELSE t, sgn /\ Ch(t, 1) = "-")

PyIntStripped(t) == PyIntSigned(t, t # "" /\ Ch(t, 1) \in {"+", "-"})

\* int(s): surrounding whitespace is dropped, one sign is allowed, single
\* underscores may stand between digits; anything else raises ValueError
PyInt(s) == PyIntStripped(Strip(s))

-----------------------------------------------------------------------------
(* Regular expressions of the re module.  A pattern is a sequence of items: *)
(* a character class with a repetition range (hi = -1: unbounded; lazy: the *)
(* fewest repetitions first), an optional group (?:sub)?, or an anchor.     *)

C(set, lo, hi) == [t |-> "c", cs |-> set, lo |-> lo, hi |-> hi, lazy |-> FALSE]

WB == [t |-> "b", cs |-> {}, lo |-> 0, hi |-> 0, lazy |-> FALSE]

\* the end of the string
END == [t |-> "e", cs |-> {}, lo |-> 0, hi |-> 0, lazy |-> FALSE]

\* a literal text: one single-character class per character
Lit(s) == [i \in 1..Len(s) |-> C({Ch(s, i)}, 1, 1)]

Fail == <<-1>>

\* \b before the character at index i (i = Len(s) + 1: at the end)
AtWordBoundary(s, i) ==
    LET before == i > 1 /\ Ch(s, i - 1) \in Word
        after  == i <= Len(s) /\ Ch(s, i) \in Word
    IN  before # after

RECURSIVE RunLength(_, _, _, _)
\* the longest run of characters of class cs from index i, at most hi long
RunLength(s, i, cs, hi) ==
    IF hi = 0 \/ i > Len(s) \/ Ch(s, i) \notin cs THEN 0
    ELSE 1 + RunLength(s, i + 1, cs, IF hi = -1 THEN -1 ELSE hi - 1)

\* a match of the rest, with the end index x of one more item in front
Prepend(x, r) == IF r = Fail THEN Fail ELSE <<x>> \o r

\* the first alternative if it matches, else the second
OrElse(r, otro) == IF r # Fail THEN r ELSE otro

\* the match con of a group of n items and of what follows it, as a match of
\* the group item and of what follows it
GroupEnds(con, n) == IF con = Fail THEN Fail ELSE <<con[n]>> \o SubSeq(con, n + 1, Len(con))

\* the m-th repetition count tried on a run of run characters: greedy from the
\* longest down, lazy from the shortest up
Reps(item, run, m) == IF item.lazy THEN item.lo + m ELSE run - m

RECURSIVE MatchFrom(_, _, _, _)
RECURSIVE TryReps(_, _, _, _, _, _)
TryReps(s, i, pat, k, run, m) ==
    IF m > run - pat[k].lo THEN Fail
    ELSE OrElse(Prepend(i + Reps(pat[k], run, m) - 1,
                        MatchFrom(s, i + Reps(pat[k], run, m), pat, k + 1)),
                TryReps(s, i, pat, k, run, m + 1))

\* The match of items k.. of pat at index i that Python's backtracking finds
\* first: the index of the last character each item consumed, or Fail.
MatchFrom(s, i, pat, k) ==
    IF k > Len(pat) THEN <<>>
    ELSE IF pat[k].t = "g"
    THEN \* (?:sub)? : with the group first, then without it
         OrElse(GroupEnds(MatchFrom(s, i, pat[k].sub \o SubSeq(pat, k + 1, Len(pat)), 1),
                          Len(pat[k].sub)),
                Prepend(i - 1, MatchFrom(s, i, pat, k + 1)))
    ELSE IF pat[k].t \in {"b", "e"}
    THEN IF (pat[k].t = "b" /\ AtWordBoundary(s, i)) \/ (pat[k].t = "e" /\ i = Len(s) + 1)
         THEN Prepend(i - 1, MatchFrom(s, i, pat, k + 1))
         ELSE Fail
    ELSE TryReps(s, i, pat, k, RunLength(s, i, pat[k].cs, pat[k].hi), 0)

\* the start indices at which pat matches
MatchStarts(s, pat) == {i \in 1..(Len(s) + 1) : MatchFrom(s, i, pat, 1) # Fail}

\* re.search(pat, s) is not None
Matches(s, pat) == MatchStarts(s, pat) # {}

\* the text of items a..b in the match that starts at i and ends its items at ends
GroupOf(s, i, ends, a, b) ==
    IF ends[b] < (IF a = 1 THEN i ELSE ends[a - 1] + 1) THEN ""
    ELSE SubSeq(s, IF a = 1 THEN i ELSE ends[a - 1] + 1, ends[b])

\* re.search(pat, s).group(0) restricted to items a..b (a capturing group)
GroupAt(s, i, pat, a, b) == GroupOf(s, i, MatchFrom(s, i, pat, 1), a, b)

\* the group of the leftmost match
SearchGroup(s, pat, a, b) == GroupAt(s, MinOf(MatchStarts(s, pat)), pat, a, b)

-----------------------------------------------------------------------------
(* The two read-only lookup tables *)

CODIGOS_ESTADO_CURP ==
    [AS |-> "AGUASCALIENTES", BC |-> "BAJA CALIFORNIA", BS |-> "BAJA CALIFORNIA SUR",
     CC |-> "CAMPECHE", CL |-> "COAHUILA", CM |-> "COLIMA", CS |-> "CHIAPAS",
     CH |-> "CHIHUAHUA", DF |-> "CIUDAD DE MÉXICO", DG |-> "DURANGO",
     GT |-> "GUANAJUATO", GR |-> "GUERRERO", HG |-> "HIDALGO", JC |-> "JALISCO",
     MC |-> "MÉXICO", MN |-> "MICHOACÁN", MS |-> "MORELOS", NT |-> "NAYARIT",
     NL |-> "NUEVO LEÓN", OC |-> "OAXACA", PL |-> "PUEBLA", QT |-> "QUERÉTARO",
     QR |-> "QUINTANA ROO", SP |-> "SAN LUIS POTOSÍ", SL |-> "SINALOA",
     SR |-> "SONORA", TC |-> "TABASCO", TS |-> "TAMAULIPAS", TL |-> "TLAXCALA",
     VZ |-> "VERACRUZ", YN |-> "YUCATÁN", ZS |-> "ZACATECAS", NE |-> "EXTRANJERO"]

CODIGOS_ESTADO_ELECTOR ==
    ("01" :> "AGUASCALIENTES") @@ ("02" :> "BAJA CALIFORNIA") @@
    ("03" :> "BAJA CALIFORNIA SUR") @@ ("04" :> "CAMPECHE") @@ ("05" :> "COAHUILA") @@
    ("06" :> "COLIMA") @@ ("07" :> "CHIAPAS") @@ ("08" :> "CHIHUAHUA") @@
    ("09" :> "CIUDAD DE MÉXICO") @@ ("10" :> "DURANGO") @@ ("11" :> "GUANAJUATO") @@
    ("12" :> "GUERRERO") @@ ("13" :> "HIDALGO") @@ ("14" :> "JALISCO") @@
    ("15" :> "MÉXICO") @@ ("16" :> "MICHOACÁN") @@ ("17" :> "MORELOS") @@
    ("18" :> "NAYARIT") @@ ("19" :> "NUEVO LEÓN") @@ ("20" :> "OAXACA") @@
    ("21" :> "PUEBLA") @@ ("22" :> "QUERÉTARO") @@ ("23" :> "QUINTANA ROO") @@
    ("24" :> "SAN LUIS POTOSÍ") @@ ("25" :> "SINALOA") @@ ("26" :> "SONORA") @@
    ("27" :> "TABASCO") @@ ("28" :> "TAMAULIPAS") @@ ("29" :> "TLAXCALA") @@
    ("30" :> "VERACRUZ") @@ ("31" :> "YUCATÁN") @@ ("32" :> "ZACATECAS")

\* d.get(k, "")
DictGet(d, k) == IF k \in DOMAIN d THEN d[k] ELSE ""

-----------------------------------------------------------------------------
(* Results: a function of the source either returns a value or raises *)

Returned(v) == [exc |-> "", val |-> v]

\* an exception of class e with the message msg
RaisedMsg(e, msg) == [exc |-> e, val |-> msg]

-----------------------------------------------------------------------------
(* The personal-ID (CURP) decoder *)

\* a guard that lets codes of 15 characters through
curp_demasiado_corta_min15(c) == c = "" \/ Len(c) < 15

\* not curp or len(curp) < 16
curp_demasiado_corta(c) == c = "" \/ Len(c) < 16

\* a century rule that sends the current two-digit year to the 1900s
siglo_mayor_o_igual(anio_num, hoy) == IF anio_num >= hoy % 100 THEN "19" ELSE "20"

\* "19" if año_num > año_actual_2dig else "20"
siglo_de(anio_num, hoy) == IF anio_num > hoy % 100 THEN "19" ELSE "20"

\* the decoded fields once int(anio) was evaluated
datos_de_curp(c, hoy, anio, anio_num, codigo_estado) ==
    IF ~anio_num.ok THEN RaisedMsg("ValueError", <<>>)
    ELSE Returned([sexo |-> IF Upper(Ch(c, 11)) \in {"H", "M"} THEN Upper(Ch(c, 11)) ELSE "X",
                   fecha_nacimiento |->
                       Slice(c, 8, 10) \o "/" \o Slice(c, 6, 8) \o "/"
                           \o siglo_de(anio_num.val, hoy) \o anio,
                   entidad_nacimiento |-> codigo_estado,
                   estado |-> DictGet(CODIGOS_ESTADO_CURP, codigo_estado)])

\* a decoder that reads only codes of the full 18 characters
extraer_datos_desde_curp_de_18(c, hoy) ==
    IF Len(c) < 18
    THEN Returned([sexo |-> "", fecha_nacimiento |-> "", entidad_nacimiento |-> "", estado |-> ""])
    ELSE datos_de_curp(c, hoy, Slice(c, 4, 6), PyInt(Slice(c, 4, 6)), Upper(Slice(c, 11, 13)))

extraer_datos_desde_curp(c, hoy) ==
    IF curp_demasiado_corta(c)
    THEN Returned([sexo |-> "", fecha_nacimiento |-> "", entidad_nacimiento |-> "", estado |-> ""])
    ELSE datos_de_curp(c, hoy, Slice(c, 4, 6), PyInt(Slice(c, 4, 6)), Upper(Slice(c, 11, 13)))

-----------------------------------------------------------------------------
(* The voter-registration code (clave de elector) decoder *)

\* \b(\d{4})\b
ReSeccionClave == <<WB, C(Digits, 4, 4), WB>>

\* \b(19\d{2}|...)\b, the first alternative
ReAnio19 == <<WB>> \o Lit("19") \o <<C(Digits, 2, 2), WB>>

\* a state code read one character too far to the right
codigo_estado_clave_desplazado(k) == Slice(k, 1, 3)

\* clave[0:2]
codigo_estado_clave(k) == Slice(k, 0, 2)

\* re.finditer(r'\b(19\d{2}|20[0-2]\d)\b', clave): the starts of the year words
\* with 1900 <= año <= año_actual + 1; each match is a whole 4-digit word, so
\* they never overlap
anios_plausibles(k, hoy) ==
    {i \in MatchStarts(k, ReAnio19)
            \cup MatchStarts(k, <<WB>> \o Lit("20")
                                    \o <<C({"0", "1", "2"}, 1, 1), C(Digits, 1, 1), WB>>) :
        1900 <= DigitsValue(SubSeq(k, i, i + 3)) /\ DigitsValue(SubSeq(k, i, i + 3)) <= hoy + 1}

\* the leftmost of them, or nothing
primer_anio(k, anios) == IF anios = {} THEN "" ELSE SubSeq(k, MinOf(anios), MinOf(anios) + 3)

extraer_datos_desde_clave_elector(k, hoy) ==
    IF k = "" \/ Len(k) < 13
    THEN Returned([estado_clave |-> "", seccion_clave |-> "", anio_registro_clave |-> ""])
    ELSE Returned([estado_clave |-> DictGet(CODIGOS_ESTADO_ELECTOR, codigo_estado_clave(k)),
                   seccion_clave |-> IF Matches(k, ReSeccionClave)
                                     THEN SearchGroup(k, ReSeccionClave, 2, 2) ELSE "",
                   anio_registro_clave |-> primer_anio(k, anios_plausibles(k, hoy))])

-----------------------------------------------------------------------------
(* Inputs of the decoders *)

\* the longest code handed to a decoder
MaxCodeLen == 19

\* the years the run may take place in: the century rule reads year % 100
Years == {2026, 2099, 2100}

Prefixes(S, n) == {SubSeq(b, 1, IF m < Len(b) THEN m ELSE Len(b)) : b \in S, m \in 0..n}

\* the requests the server is given
NumRequests == 2

Requests == 1..NumRequests

NoPayload == [ok |-> FALSE, texts |-> <<>>, error |-> "", de |-> 0]

\* no request has arrived
OcrIdle ==
    /\ rpc = [r \in Requests |-> "idle"]
    /\ peticion = [r \in Requests |-> [imagen |-> "", debug |-> ""]]
    /\ proceso = [r \in Requests |-> "none"]
    /\ out_q = [q \in Requests |-> <<>>]
    /\ transcurrido = [r \in Requests |-> 0]
    /\ plazo = [r \in Requests |-> 0]
    /\ payload = [r \in Requests |-> NoPayload]
    /\ ocr_ret = [r \in Requests |-> Returned(<<>>)]
    /\ respuesta = [r \in Requests |-> [status |-> 0, error |-> "", datos |-> <<>>]]
    /\ vivo_al_vencer = [r \in Requests |-> FALSE]
    /\ vivo_al_comprobar = [r \in Requests |-> FALSE]

\* a pure function is about to be called; the server is idle
IdlePure ==
    /\ pc = "start"
    /\ ret = Returned(<<>>)
    /\ OcrIdle

InitCurp ==
    /\ anio_actual \in Years
    /\ curp \in
          Prefixes({"CAOR" \o yy \o mm \o dd \o sx \o st \o "SLC09X" :
                       yy \in {"00", "26", "27", "93", "XX", "9O", " 5", "-1"},
                       mm \in {"05", "12", "13"}, dd \in {"01", "31"},
                       sx \in {"H", "M", "X", "m", "7"},
                       st \in {"QR", "df", "ZZ"}},
                   MaxCodeLen)
    /\ clave = ""
    /\ texts = <<>>
    /\ tipo_credencial = ""
    /\ nombre_a_separar = ""
    /\ data = <<>>
    /\ IdlePure

Call_extraer_datos_desde_curp ==
    /\ pc = "start"
    /\ pc' = "extraer_datos_desde_curp"
    /\ ret' = extraer_datos_desde_curp(curp, anio_actual)
    /\ UNCHANGED <<anio_actual, curp, clave, texts, tipo_credencial, nombre_a_separar, data,
                 ocr_vars>>

NextCurp == Call_extraer_datos_desde_curp

SpecCurp == InitCurp /\ [][NextCurp]_vars

InitClave ==
    /\ anio_actual \in Years
    /\ clave \in
          Prefixes({pre \o body :
                       pre \in {"01", "23", "32", "33", "00", "CS", "1 "},
                       body \in {"OLRC93053123H800XY", " 0467 1999 ABCDEFGHI",
                                 "AB1234CD-2027-2028-EF", "-2101-1899 12345 AB",
                                 "XX 2028 2027 0001 Z"}},
                   MaxCodeLen)
    /\ curp = ""
    /\ texts = <<>>
    /\ tipo_credencial = ""
    /\ nombre_a_separar = ""
    /\ data = <<>>
    /\ IdlePure

Call_extraer_datos_desde_clave_elector ==
    /\ pc = "start"
    /\ pc' = "extraer_datos_desde_clave_elector"
    /\ ret' = extraer_datos_desde_clave_elector(clave, anio_actual)
    /\ UNCHANGED <<anio_actual, curp, clave, texts, tipo_credencial, nombre_a_separar, data,
                 ocr_vars>>

NextClave == Call_extraer_datos_desde_clave_elector

SpecClave == InitClave /\ [][NextClave]_vars

-----------------------------------------------------------------------------
(* The line normaliser *)

\* if t2: limpios.append(t2)
linea_si_queda(t2) == IF t2 # "" THEN <<t2>> ELSE <<>>

RECURSIVE normalizar_textos(_)
normalizar_textos(ts) ==
    IF ts = <<>> THEN <<>>
    ELSE linea_si_queda(CollapseWs(Strip(Head(ts)))) \o normalizar_textos(Tail(ts))

\* a loop body either returns a value from the function or falls through
Found(v) == [found |-> TRUE, v |-> v]

NotFound == [found |-> FALSE, v |-> ""]

\* what an iteration returned, or what the rest of the loop does
OrElseFound(r, resto) == IF r.found THEN r ELSE resto

\* the smaller of two integers
Menor(a, b) == IF a < b THEN a ELSE b

\* for i in range(lo, hi + 1): the value of the first iteration that returns
FirstFound(lo, hi, body(_)) ==
    LET RECURSIVE loop(_)
        loop(i) == IF i > hi THEN NotFound ELSE OrElseFound(body(i), loop(i + 1))
    IN  loop(lo)

-----------------------------------------------------------------------------
(* The validity-period extractor *)

\* (\d{4}\s*[-\s]+\s*\d{4})
ReDosAnios ==
    <<C(Digits, 4, 4), C(Whitespace, 0, -1), C(Whitespace \cup {"-"}, 1, -1),
      C(Whitespace, 0, -1), C(Digits, 4, 4)>>

\* VIGENCIA\s*[:\-]?\s*(\d{4}\s*[-\s]+\s*\d{4}); the group is items 12..16
ReVigenciaMismaLinea ==
    Lit("VIGENCIA") \o <<C(Whitespace, 0, -1), C({":", "-"}, 0, 1), C(Whitespace, 0, -1)>>
        \o ReDosAnios

\* \b(\d{4}\s*[-]\s*\d{4})\b; the group is items 2..6
ReAniosConGuion ==
    <<WB, C(Digits, 4, 4), C(Whitespace, 0, -1), C({"-"}, 1, 1),
      C(Whitespace, 0, -1), C(Digits, 4, 4), WB>>

\* re.sub(r'\s+', ' ', vigencia.replace('-', ' - ').strip())
limpiar_formato_vigencia(v) == CollapseWs(Strip(ReplaceChar(v, "-", " - ")))

RECURSIVE en_orden(_, _)
\* the four-character words of s that start at the indices S, left to right
en_orden(s, S) ==
    IF S = {} THEN <<>> ELSE <<SubSeq(s, MinOf(S), MinOf(S) + 3)>> \o en_orden(s, S \ {MinOf(S)})

\* re.findall(r'\b(19\d{2}|20\d{2})\b', s): the year words of s, left to right
anios_en(s) ==
    en_orden(s, MatchStarts(s, ReAnio19)
                    \cup MatchStarts(s, <<WB>> \o Lit("20") \o <<C(Digits, 2, 2), WB>>))

\* 1900 <= año1 <= 2099 and 1900 <= año2 <= 2099 and año2 > año1
par_de_anios_valido(a1, a2) ==
    1900 <= a1 /\ a1 <= 2099 /\ 1900 <= a2 /\ a2 <= 2099 /\ a2 > a1

\* a label line: the pair on the line itself, or on one of the next two lines;
\* idx is textos_limpios.index(line), 1-based
vigencia_tras_etiqueta(tl, line_upper, idx) ==
    IF ~Contains(line_upper, "VIGENCIA") THEN NotFound
    ELSE IF Matches(line_upper, ReVigenciaMismaLinea)
    THEN Found(limpiar_formato_vigencia(SearchGroup(line_upper, ReVigenciaMismaLinea, 12, 16)))
    ELSE FirstFound(idx + 1, Menor(idx + 2, Len(tl)),
                    LAMBDA j : IF Matches(tl[j], ReDosAnios)
                               THEN Found(limpiar_formato_vigencia(
                                              SearchGroup(tl[j], ReDosAnios, 1, 5)))
                               ELSE NotFound)

\* a hyphenated pair g whose years are plausible and in order
par_con_guion(g) ==
    IF par_de_anios_valido(DigitsValue(SubSeq(g, 1, 4)),
                           DigitsValue(SubSeq(g, Len(g) - 3, Len(g))))
    THEN Found(limpiar_formato_vigencia(g)) ELSE NotFound

\* a bare hyphenated pair anywhere on a line
vigencia_directa(line) ==
    IF ~Matches(line, ReAniosConGuion) THEN NotFound
    ELSE par_con_guion(SearchGroup(line, ReAniosConGuion, 2, 6))

\* the first loop: one line of textos_limpios
vigencia_en_linea(tl, i) ==
    OrElseFound(vigencia_tras_etiqueta(tl, Upper(tl[i]),
                                       MinOf({k \in 1..Len(tl) : tl[k] = tl[i]})),
                vigencia_directa(tl[i]))

\* the pairing without the test j > i: a single year of the label line is paired too
par_separado_sin_despues(anios, segundo, despues) ==
    IF Len(anios) >= 2 THEN Found(anios[1] \o " - " \o anios[2])
    ELSE IF Len(anios) = 1 /\ segundo # <<>>
    THEN Found(anios[1] \o " - " \o segundo[1])
    ELSE NotFound

\* two years on a line, or one year on a line after the label and one on the next
par_separado(anios, segundo, despues) ==
    IF Len(anios) >= 2 THEN Found(anios[1] \o " - " \o anios[2])
    ELSE IF Len(anios) = 1 /\ despues /\ segundo # <<>>
    THEN Found(anios[1] \o " - " \o segundo[1])
    ELSE NotFound

\* the second loop: years standing apart near a label line
vigencia_anios_separados(tl, i) ==
    IF Contains(Upper(tl[i]), "VIGENCIA")
    THEN FirstFound(i, Menor(i + 2, Len(tl)),
                    LAMBDA j : par_separado(anios_en(tl[j]),
                                            anios_en(IF j + 1 <= Len(tl) THEN tl[j + 1] ELSE ""),
                                            j > i))
    ELSE NotFound

\* the two loops over the normalised lines
vigencia_de(tl) ==
    OrElseFound(FirstFound(1, Len(tl), LAMBDA i : vigencia_en_linea(tl, i)),
                FirstFound(1, Len(tl), LAMBDA i : vigencia_anios_separados(tl, i))).v

extraer_vigencia_correcta(ts, tipo) == vigencia_de(normalizar_textos(ts))

-----------------------------------------------------------------------------
(* Inputs of the validity-period extractor *)

\* the longest OCR line list handed to the validity-period extractor
MaxVigenciaLines == 3

LineLists(vocab, n) == UNION {[1..m -> vocab] : m \in 0..n}

InitVigencia ==
    /\ texts \in LineLists(
          {"VIGENCIA", "Vigencia  2021 2031", "VIGENCIA: 2031-2021", "VIGENCIA 2021",
           " 2022  -  2032 ", "2031-2021", "1800 - 1700", "2031", "JUAN 2020 2030", "",
           "2021 A 2031"},
          MaxVigenciaLines)
    /\ tipo_credencial \in {"D"}
    /\ nombre_a_separar = ""
    /\ data = <<>>
    /\ anio_actual \in {2026}
    /\ curp = ""
    /\ clave = ""
    /\ IdlePure

Call_extraer_vigencia_correcta ==
    /\ pc = "start"
    /\ pc' = "extraer_vigencia_correcta"
    /\ ret' = Returned(extraer_vigencia_correcta(texts, tipo_credencial))
    /\ UNCHANGED <<anio_actual, curp, clave, texts, tipo_credencial, nombre_a_separar, data,
                 ocr_vars>>

NextVigencia == Call_extraer_vigencia_correcta

SpecVigencia == InitVigencia /\ [][NextVigencia]_vars

-----------------------------------------------------------------------------
(* The name extractor *)

palabras_invalidas ==
    {"EDAD", "AÑOS", "AÑO", "EDAD:", "EDADES", "FECHA", "NACIMIENTO",
     "DOMICILIO", "CALLE", "COLONIA", "ESTADO", "MUNICIPIO", "CIUDAD",
     "CP", "C.P.", "CÓDIGO", "POSTAL", "SECCIÓN", "SECCION", "CLAVE",
     "ELECTOR", "CURP", "VIGENCIA", "VIGENTE", "INSTITUTO", "NACIONAL",
     "FEDERAL", "ELECTORAL", "CREDENCIAL", "VOTAR", "PARA", "MÉXICO",
     "REGISTRO"}

\* a word stripped of its punctuation that may be part of a name; the last
\* conjunct is not re.match(r'^\d+[A-Z]*$', palabra_limpia)
palabra_limpia_valida(palabra_limpia) ==
    /\ palabra_limpia # ""
    /\ Len(palabra_limpia) > 1
    /\ palabra_limpia \notin palabras_invalidas
    /\ ~AllDigits(palabra_limpia)
    /\ MatchFrom(palabra_limpia, 1, <<C(Digits, 1, -1), C(AZ, 0, -1), END>>, 1) = Fail

palabra_valida(palabra) == palabra_limpia_valida(KeepChars(palabra, Word))

\* the upper-case forms of the words of a list
mayusculas_de(palabras) == {Upper(palabras[i]) : i \in 1..Len(palabras)}

\* the words of nombre, in its own case, whose upper-case form was kept
nombre_con_palabras(nombre, limpias_upper) ==
    Join(SelectSeq(Split(nombre), LAMBDA w : Upper(w) \in limpias_upper), " ")

limpiar_y_validar_nombre(nombre) ==
    IF nombre = "" THEN ""
    ELSE nombre_con_palabras(nombre,
                             mayusculas_de(SelectSeq(Split(Upper(nombre)), palabra_valida)))

\* (INSTITUTO|NACIONAL|ELECTORAL|CREDENCIAL|PARA\s+VOTAR|M[EÉ]XICO|ESTADOS\s+UNIDOS)
blacklist_regex(up) ==
    \/ \E w \in {"INSTITUTO", "NACIONAL", "ELECTORAL", "CREDENCIAL", "MEXICO", "MÉXICO"} :
            Contains(up, w)
    \/ Matches(up, Lit("PARA") \o <<C(Whitespace, 1, -1)>> \o Lit("VOTAR"))
    \/ Matches(up, Lit("ESTADOS") \o <<C(Whitespace, 1, -1)>> \o Lit("UNIDOS"))

\* (DOMICILIO|CLAVE|CURP|FECHA|SECCI[ÓO]N|AÑO|REGISTRO|VIGENCIA|SEXO|EDAD)
stop_labels_regex(up) ==
    \E w \in {"DOMICILIO", "CLAVE", "CURP", "FECHA", "SECCIÓN", "SECCION", "AÑO",
               "REGISTRO", "VIGENCIA", "SEXO", "EDAD"} : Contains(up, w)

LetrasMayus == AZ \cup AcentosMayus

\* len(re.sub(r'[^A-ZÁÉÍÓÚÜÑ]', '', up)) < 2
muy_corta(up) == Len(KeepChars(up, LetrasMayus)) < 2

\* a check that lets a single word through as a name
al_menos_una_palabra(nombre) == Len(Split(nombre)) >= 1

\* len(nombre_candidato.split()) >= 2
al_menos_dos_palabras(nombre) == Len(Split(nombre)) >= 2

\* the first index whose line contains "DOMICILIO", 0 when there is none
indice_domicilio(tl) ==
    LET hits == {i \in 1..Len(tl) : Contains(Upper(tl[i]), "DOMICILIO")}
    IN  IF hits = {} THEN 0 ELSE MinOf(hits)

\* a stripped line sl, up in upper case, that may be part of a name
linea_candidata(sl, up) ==
    /\ sl # ""
    /\ up # "NOMBRE"
    /\ ~stop_labels_regex(up)
    /\ ~blacklist_regex(up)
    /\ ~HasDigit(up)
    /\ ~muy_corta(up)

es_candidata(linea) == linea_candidata(Strip(linea), Strip(Upper(Strip(linea))))

\* the lines above the anchor, at most twelve
ventana_de(tl, idx_dom) ==
    IF idx_dom = 0 THEN <<>>
    ELSE SubSeq(tl, IF idx_dom - 12 > 1 THEN idx_dom - 12 ELSE 1, idx_dom - 1)

candidatos_de(ventana) ==
    SelectSeq([i \in 1..Len(ventana) |-> Strip(ventana[i])], es_candidata)

\* candidatos[-4:]
ultimos_de(candidatos) ==
    SubSeq(candidatos, IF Len(candidatos) > 4 THEN Len(candidatos) - 3 ELSE 1, Len(candidatos))

\* a candidate is returned only if it has two words
nombre_si_valido(nombre_candidato) ==
    IF al_menos_dos_palabras(nombre_candidato) THEN Found(nombre_candidato) ELSE NotFound

nombre_de_candidatos(candidatos) ==
    IF candidatos = <<>> THEN NotFound
    ELSE nombre_si_valido(Strip(limpiar_y_validar_nombre(Strip(Join(ultimos_de(candidatos), " ")))))

\* strategy 0: the lines above the DOMICILIO anchor
nombre_por_domicilio(tl) ==
    nombre_de_candidatos(candidatos_de(ventana_de(tl, indice_domicilio(tl))))

\* NOMBRE\s*[:\-]?\s*([A-ZÁÉÍÓÚÜÑ\s\.]{3,}); the group is item 10
ReNombreEnLinea ==
    Lit("NOMBRE") \o <<C(Whitespace, 0, -1), C({":", "-"}, 0, 1), C(Whitespace, 0, -1),
                       C(LetrasMayus \cup Whitespace \cup {"."}, 3, -1)>>

\* one line under the label: it ends the name, is skipped, or is a part of it
parte_del_nombre(sl, s_up, resto) ==
    IF stop_labels_regex(s_up) THEN <<>>
    ELSE IF \/ blacklist_regex(s_up)
            \/ sl = ""
            \/ HasDigit(s_up)
            \/ muy_corta(s_up)
    THEN resto
    ELSE <<sl>> \o resto

RECURSIVE partes_del_nombre(_, _, _)
partes_del_nombre(tl, j, ultimo) ==
    IF j > ultimo THEN <<>>
    ELSE parte_del_nombre(Strip(tl[j]), Strip(Upper(Strip(tl[j]))),
                          partes_del_nombre(tl, j + 1, ultimo))

\* the GH strategy, first part: the lines under a line that reads NOMBRE
nombre_bajo_etiqueta(tl, i) ==
    IF Strip(Upper(tl[i])) = "NOMBRE"
    THEN nombre_si_valido(
             Strip(limpiar_y_validar_nombre(
                       Strip(Join(partes_del_nombre(tl, i + 1, Menor(i + 6, Len(tl))), " ")))))
    ELSE NotFound

\* a cleaned candidate nc, nc_up in upper case, that holds no label
nombre_sin_etiquetas(nc, nc_up) ==
    IF /\ al_menos_dos_palabras(nc)
       /\ ~stop_labels_regex(nc_up)
       /\ ~blacklist_regex(nc_up)
       /\ ~HasDigit(nc_up)
    THEN Found(nc) ELSE NotFound

nombre_tras_etiqueta(nc) == nombre_sin_etiquetas(nc, Upper(nc))

\* the GH strategy, second part: "NOMBRE: ..." on one line, in upper case
nombre_en_mayusculas(up) ==
    IF Matches(up, ReNombreEnLinea)
    THEN nombre_tras_etiqueta(
             Strip(limpiar_y_validar_nombre(Strip(SearchGroup(up, ReNombreEnLinea, 10, 10)))))
    ELSE NotFound

\* the general fallback: one line, up in upper case, candidato cleaned
nombre_de_linea_suelta(up, candidato) ==
    IF /\ up # ""
       /\ Len(Split(up)) >= 2
       /\ ~stop_labels_regex(up)
       /\ ~blacklist_regex(up)
       /\ ~HasDigit(up)
       /\ al_menos_dos_palabras(candidato)
    THEN Found(candidato) ELSE NotFound

\* the strategies in order, over the normalised lines
nombre_de(tl, tipo) ==
    OrElseFound(
        nombre_por_domicilio(tl),
        OrElseFound(
            IF tipo = "GH"
            THEN FirstFound(1, Len(tl), LAMBDA i : nombre_bajo_etiqueta(tl, i)) ELSE NotFound,
            OrElseFound(
                IF tipo = "GH"
                THEN FirstFound(1, Len(tl), LAMBDA i : nombre_en_mayusculas(Upper(tl[i]))) ELSE NotFound,
                FirstFound(1, Len(tl),
                           LAMBDA i : nombre_de_linea_suelta(
                                          Strip(Upper(tl[i])),
                                          Strip(limpiar_y_validar_nombre(Strip(tl[i])))))))).v

extraer_nombre_mejorado(ts, tipo) == nombre_de(normalizar_textos(ts), tipo)

-----------------------------------------------------------------------------
(* Inputs of the name extractor *)

\* the longest OCR line list handed to the name extractor
MaxNombreLines == 3

InitNombre ==
    /\ texts \in LineLists(
          {"DOMICILIO", "NOMBRE", "JUAN PEREZ", "LOPEZ", "Nombre: ANA RUIZ Q.",
           "X  LÓPEZ", "EDAD 30", "PEREZ 7", "INSTITUTO NACIONAL ELECTORAL", "SEXO H"},
          MaxNombreLines)
    /\ tipo_credencial \in {"C", "D", "GH"}
    /\ nombre_a_separar = ""
    /\ data = <<>>
    /\ anio_actual \in {2026}
    /\ curp = ""
    /\ clave = ""
    /\ IdlePure

Call_extraer_nombre_mejorado ==
    /\ pc = "start"
    /\ pc' = "extraer_nombre_mejorado"
    /\ ret' = Returned(extraer_nombre_mejorado(texts, tipo_credencial))
    /\ UNCHANGED <<anio_actual, curp, clave, texts, tipo_credencial, nombre_a_separar, data,
                 ocr_vars>>

NextNombre == Call_extraer_nombre_mejorado

SpecNombre == InitNombre /\ [][NextNombre]_vars

-----------------------------------------------------------------------------
(* The layout classifier *)

\* a personal-ID pattern whose date positions take letters as well
ReCurpSinDigitos ==
    <<C(AZ, 4, 4), C(Digits \cup AZ, 6, 6), C({"H", "M", "X"}, 1, 1), C(AZ, 5, 6),
      C(Digits \cup AZ, 1, 1)>>

\* [A-Z]{4}[0-9]{6}[HMX][A-Z]{5,6}[0-9A-Z]
ReCurp ==
    <<C(AZ, 4, 4), C(Digits, 6, 6), C({"H", "M", "X"}, 1, 1), C(AZ, 5, 6),
      C(Digits \cup AZ, 1, 1)>>

\* " ".join([t.upper().strip() for t in textos_limpios if t]).strip()
texto_completo_de(tl) ==
    Strip(Join([i \in 1..Len(SelectSeq(tl, LAMBDA t : t # "")) |->
                   Strip(Upper(SelectSeq(tl, LAMBDA t : t # "")[i]))], " "))

\* a legacy test that does not look for the acronym
es_ife_sin_siglas(texto_completo) ==
    \/ Contains(texto_completo, "INSTITUTO FEDERAL ELECTORAL")
    \/ Contains(texto_completo, "REGISTRO FEDERAL DE ELECTORES")
    \/ /\ Contains(texto_completo, "FEDERAL")
       /\ Contains(texto_completo, "ELECTORAL")
       /\ Contains(texto_completo, "REGISTRO")

es_ife(texto_completo) ==
    \/ Contains(texto_completo, "INSTITUTO FEDERAL ELECTORAL")
    \/ Contains(texto_completo, "REGISTRO FEDERAL DE ELECTORES")
    \/ Matches(texto_completo, <<WB>> \o Lit("IFE") \o <<WB>>)
    \/ /\ Contains(texto_completo, "FEDERAL")
       /\ Contains(texto_completo, "ELECTORAL")
       /\ Contains(texto_completo, "REGISTRO")

tiene_ine(texto_completo) ==
    /\ Contains(texto_completo, "INSTITUTO")
    /\ Contains(texto_completo, "ELECTORAL")
    /\ Contains(texto_completo, "NACIONAL") \/ Matches(texto_completo, <<WB>> \o Lit("INE") \o <<WB>>)

tiene_credencial_para_votar(texto_completo) ==
    Contains(texto_completo, "CREDENCIAL") /\ Contains(texto_completo, "VOTAR")

\* CLAVE\s*DE\s*ELECTOR, "CLAVE" and "ELECTOR", or CLAVE\s*DE\s*ELEC
tiene_clave_elector_flexible(texto_completo) ==
    \/ Matches(texto_completo,
               Lit("CLAVE") \o <<C(Whitespace, 0, -1)>> \o Lit("DE") \o <<C(Whitespace, 0, -1)>>
                   \o Lit("ELECTOR"))
    \/ Contains(texto_completo, "CLAVE") /\ Contains(texto_completo, "ELECTOR")
    \/ Matches(texto_completo,
               Lit("CLAVE") \o <<C(Whitespace, 0, -1)>> \o Lit("DE") \o <<C(Whitespace, 0, -1)>>
                   \o Lit("ELEC"))

\* a classifier without the final default
tipo_de_texto_sin_defecto(texto_completo) ==
    IF es_ife(texto_completo) THEN "C"
    ELSE IF ~(tiene_ine(texto_completo) /\ tiene_credencial_para_votar(texto_completo)) THEN ""
    ELSE IF tiene_clave_elector_flexible(texto_completo) THEN "GH"
    ELSE "D"

tipo_de_texto(texto_completo) ==
    IF es_ife(texto_completo) THEN "C"
    ELSE IF /\ tiene_ine(texto_completo)
            /\ tiene_credencial_para_votar(texto_completo)
            /\ tiene_clave_elector_flexible(texto_completo)
    THEN "GH"
    ELSE "D"

clasificar_tipo_credencial(tl) == tipo_de_texto(texto_completo_de(tl))

-----------------------------------------------------------------------------
(* Inputs of the layout classifier: lists of normalised lines *)

\* the longest list of lines handed to the layout classifier
MaxClasificarLines == 3

InitClasificar ==
    /\ texts \in LineLists(
          {"INSTITUTO NACIONAL ELECTORAL", "INSTITUTO FEDERAL ELECTORAL",
           "REGISTRO FEDERAL DE ELECTORES", "IFE", "RIFE", "INE INSTITUTO ELECTORAL",
           "credencial para votar", "CLAVE DE ELECTOR", "CALLE CLAVEL 12",
           "FOLIO DE REGISTRO", "DISTRITO FEDERAL"},
          MaxClasificarLines)
    /\ anio_actual \in {2026}
    /\ tipo_credencial = ""
    /\ nombre_a_separar = ""
    /\ data = <<>>
    /\ curp = ""
    /\ clave = ""
    /\ IdlePure

Call_clasificar_tipo_credencial ==
    /\ pc = "start"
    /\ pc' = "clasificar_tipo_credencial"
    /\ ret' = Returned(clasificar_tipo_credencial(texts))
    /\ UNCHANGED <<anio_actual, curp, clave, texts, tipo_credencial, nombre_a_separar, data,
                 ocr_vars>>

NextClasificar == Call_clasificar_tipo_credencial

SpecClasificar == InitClasificar /\ [][NextClasificar]_vars

-----------------------------------------------------------------------------
(* The identifier locator: the first line a pattern matches *)

\* a pattern as the locator receives it: its text, its items, and the items
\* a..b that make up group 1
Pat(src, re, a, b) == [src |-> src, re |-> re, a |-> a, b |-> b]

\* \b(\d{1,5}[A-Z]?(?:\s*INT\.?\s*\d+)?)\b; the group is items 2..4
ReNumero ==
    <<WB, C(Digits, 1, 5), C(AZ, 0, 1),
      [t |-> "g", sub |-> <<C(Whitespace, 0, -1)>> \o Lit("INT")
                             \o <<C({"."}, 0, 1), C(Whitespace, 0, -1), C(Digits, 1, -1)>>],
      WB>>

RECURSIVE FindAllFrom(_, _, _)
\* the match from j to e, and the matches after it
FindAllAfter(s, j, e, pat) ==
    <<SubSeq(s, j, e)>> \o FindAllFrom(s, IF e >= j THEN e + 1 ELSE j + 1, pat)

\* the matches from the leftmost start on
FindAllAt(s, starts, pat) ==
    IF starts = {} THEN <<>>
    ELSE FindAllAfter(s, MinOf(starts), MatchFrom(s, MinOf(starts), pat, 1)[Len(pat)], pat)

\* re.findall(pat, s) for a pattern without groups: the matches from left to
\* right, each search resuming where the last match ended
FindAllFrom(s, i, pat) ==
    FindAllAt(s, {j \in i..(Len(s) + 1) : MatchFrom(s, j, pat, 1) # Fail}, pat)

\* 1 <= dia <= 31 and 1 <= mes <= 12 and 1900 <= año <= current year; int()
\* of two or four digits cannot fail
fecha_plausible(dia, mes, anio, hoy) ==
    /\ dia.ok /\ mes.ok /\ anio.ok
    /\ 1 <= dia.val /\ dia.val <= 31
    /\ 1 <= mes.val /\ mes.val <= 12
    /\ 1900 <= anio.val /\ anio.val <= hoy

fecha_si_plausible(fecha, hoy) ==
    IF fecha_plausible(PyInt(SubSeq(fecha, 1, 2)), PyInt(SubSeq(fecha, 4, 5)),
                       PyInt(SubSeq(fecha, 7, 10)), hoy)
    THEN Found(fecha) ELSE NotFound

\* exactly two years, plausible and in order
\* the check of the two years without the comparison of one with the other
dos_anios_sin_orden(anios) ==
    /\ Len(anios) = 2
    /\ \A k \in 1..2 : DigitsValue(anios[k]) >= 1900 /\ DigitsValue(anios[k]) <= 2099

dos_anios_validos(anios) ==
    /\ Len(anios) = 2
    /\ par_de_anios_valido(DigitsValue(anios[1]), DigitsValue(anios[2]))

vigencia_si_plausible(vigencia) ==
    IF dos_anios_validos(FindAllFrom(vigencia, 1, <<C(Digits, 4, 4)>>))
    THEN Found(vigencia) ELSE NotFound

\* one iteration of the loop over the lines: under the date rule the match is
\* returned only if it is a plausible date, under the validity rule only if
\* its two years are plausible and in order
buscar_en_linea(pattern, line, hoy) ==
    IF ~Matches(line, pattern.re) THEN NotFound
    ELSE IF Contains(pattern.src, "\\d{2}/\\d{2}/\\d{4}")
    THEN fecha_si_plausible(SearchGroup(line, pattern.re, pattern.a, pattern.b), hoy)
    ELSE IF Contains(pattern.src, "\\d{4}\\s*[-]")
    THEN vigencia_si_plausible(SearchGroup(line, pattern.re, pattern.a, pattern.b))
    ELSE Found(SearchGroup(line, pattern.re, pattern.a, pattern.b))

\* the search that goes on after a match: the last line that matches wins
buscar_en_lista_ultima(pattern, lista, hoy) ==
    FirstFound(1, Len(lista),
               LAMBDA i : buscar_en_linea(pattern, lista[Len(lista) + 1 - i], hoy)).v

buscar_en_lista(pattern, lista, hoy) ==
    FirstFound(1, Len(lista), LAMBDA i : buscar_en_linea(pattern, lista[i], hoy)).v

buscar_seccion(lista) ==
    FirstFound(1, Len(lista),
               LAMBDA i : IF MatchFrom(Strip(lista[i]), 1, <<C(Digits, 4, 4), END>>, 1) # Fail
                          THEN Found(Strip(lista[i])) ELSE NotFound).v

-----------------------------------------------------------------------------
(* The field assembler *)

\* textos_limpios[k] if len(textos_limpios) > k else "", for a 0-based k
linea_o_vacio(tl, k) == IF Len(tl) > k THEN tl[k + 1] ELSE ""

\* a or b, for two strings
o_bien(a, b) == IF a # "" THEN a ELSE b

\* the record of the basic fields
campos_basicos(textos_limpios, tipo, nombre_completo, curp_crudo, clave_elector_crudo, vigencia_correcta, hoy) ==
    [tipo_credencial |-> tipo,
     es_ine |-> Contains(Join([i \in 1..Len(textos_limpios) |-> Upper(textos_limpios[i])], " "),
                         "INSTITUTO NACIONAL ELECTORAL"),
     nombre |-> nombre_completo,
     curp |-> curp_crudo,
     clave_elector |-> clave_elector_crudo,
     fecha_nacimiento |->
         buscar_en_lista(Pat("\\b(\\d{2}/\\d{2}/\\d{4})\\b",
                             <<WB, C(Digits, 2, 2), C({"/"}, 1, 1), C(Digits, 2, 2),
                               C({"/"}, 1, 1), C(Digits, 4, 4), WB>>, 2, 6),
                         textos_limpios, hoy),
     anio_registro |->
         buscar_en_lista(Pat("(\\d{4}\\s\\d+)",
                             <<C(Digits, 4, 4), C(Whitespace, 1, 1), C(Digits, 1, -1)>>, 1, 3),
                         textos_limpios, hoy),
     seccion |-> buscar_seccion(textos_limpios),
     vigencia |-> vigencia_correcta,
     sexo |-> buscar_en_lista(Pat("\\b(H|M|X)\\b", <<WB, C({"H", "M", "X"}, 1, 1), WB>>, 2, 2),
                              textos_limpios, hoy),
     pais |-> "Mex"]

\* the 0-based index of the first line that holds DOMICILIO; -1 stands for None
dom_index_de(textos_limpios) ==
    LET hits == {i \in 1..Len(textos_limpios) : Contains(Upper(textos_limpios[i]), "DOMICILIO")}
    IN  IF hits = {} THEN -1 ELSE MinOf(hits) - 1

\* the address block: the three lines after DOMICILIO
con_domicilio(campos, textos_limpios, dom_index) ==
    campos @@
    [calle   |-> IF dom_index # -1 THEN linea_o_vacio(textos_limpios, dom_index + 1) ELSE "",
     colonia |-> IF dom_index # -1 THEN linea_o_vacio(textos_limpios, dom_index + 2) ELSE "",
     estado  |-> IF dom_index # -1 THEN linea_o_vacio(textos_limpios, dom_index + 3) ELSE ""]

\* the street number and the postal code
\* the postal code looked for in the state line alone
con_codigo_postal_solo_de_estado(campos, hoy) ==
    campos @@
    [numero |-> IF Matches(campos.calle, ReNumero)
                THEN SearchGroup(campos.calle, ReNumero, 2, 4) ELSE "",
     codigo_postal |->
         buscar_en_lista(Pat("\\b(\\d{5})\\b", <<WB, C(Digits, 5, 5), WB>>, 2, 2),
                         <<campos.estado>>, hoy)]

con_numero_y_codigo_postal(campos, hoy) ==
    campos @@
    [numero |-> IF Matches(campos.calle, ReNumero)
                THEN SearchGroup(campos.calle, ReNumero, 2, 4) ELSE "",
     codigo_postal |->
         buscar_en_lista(Pat("\\b(\\d{5})\\b", <<WB, C(Digits, 5, 5), WB>>, 2, 2),
                         <<campos.colonia, campos.estado>>, hoy)]

\* a registration year without its code gets the code " 00"
formatear_anio_registro(a) == IF a # "" /\ ~Contains(a, " ") THEN a \o " 00" ELSE a

\* the state of a decoder taken whatever the address block gave
estado_completado_de_cualquier_largo(estado, estado_curp, estado_clave) ==
    IF estado_curp # "" THEN estado_curp
    ELSE IF estado_clave # "" THEN estado_clave
    ELSE estado

\* the state of the address block, or the one of a decoder when it is missing
\* or too short
estado_completado(estado, estado_curp, estado_clave) ==
    IF estado = "" \/ Len(Strip(estado)) < 5
    THEN IF estado_curp # "" THEN estado_curp
         ELSE IF estado_clave # "" THEN estado_clave
         ELSE estado
    ELSE estado

\* a completion that takes every value the decoders give, the primary one or not
completar_sobrescribiendo(campos, datos_curp, datos_clave) ==
    [campos EXCEPT
       !.sexo = IF datos_curp.sexo # "" THEN datos_curp.sexo ELSE @,
       !.fecha_nacimiento =
           IF datos_curp.fecha_nacimiento # "" THEN datos_curp.fecha_nacimiento ELSE @,
       !.seccion = IF datos_clave.seccion_clave # "" THEN datos_clave.seccion_clave ELSE @,
       !.anio_registro =
           formatear_anio_registro(
               IF datos_clave.anio_registro_clave # ""
               THEN datos_clave.anio_registro_clave \o " 00" ELSE @),
       !.estado = estado_completado(@, datos_curp.estado, datos_clave.estado_clave)]

\* completion of the missing fields from the decoded identifiers
completar_faltantes(campos, datos_curp, datos_clave) ==
    [campos EXCEPT
       !.sexo = IF @ = "" /\ datos_curp.sexo # "" THEN datos_curp.sexo ELSE @,
       !.fecha_nacimiento =
           IF @ = "" /\ datos_curp.fecha_nacimiento # "" THEN datos_curp.fecha_nacimiento ELSE @,
       !.seccion = IF @ = "" /\ datos_clave.seccion_clave # "" THEN datos_clave.seccion_clave ELSE @,
       !.anio_registro =
           formatear_anio_registro(
               IF @ = "" /\ datos_clave.anio_registro_clave # ""
               THEN datos_clave.anio_registro_clave \o " 00" ELSE @),
       !.estado = estado_completado(@, datos_curp.estado, datos_clave.estado_clave)]

\* the validity found by the plain search stands in for a missing one
con_vigencia_de_respaldo(campos, vigencia_original) ==
    IF campos.vigencia = "" /\ vigencia_original # ""
    THEN [campos EXCEPT !.vigencia = vigencia_original] ELSE campos

con_vigencia_limpia(campos) ==
    IF campos.vigencia # "" THEN [campos EXCEPT !.vigencia = limpiar_formato_vigencia(@)]
    ELSE campos

\* the function from the decoded identifiers on; an exception of the
\* personal-ID decoder leaves the function
campos_tras_decodificar(textos_limpios, hoy, tipo, curp_crudo, clave_elector_crudo, r_curp, datos_clave) ==
    IF r_curp.exc # "" THEN RaisedMsg(r_curp.exc, <<>>)
    ELSE Returned(
           con_vigencia_limpia(
             con_vigencia_de_respaldo(
               completar_faltantes(
                 con_numero_y_codigo_postal(
                   con_domicilio(
                     campos_basicos(textos_limpios, tipo,
                                    extraer_nombre_mejorado(textos_limpios, tipo),
                                    curp_crudo, clave_elector_crudo,
                                    extraer_vigencia_correcta(textos_limpios, tipo), hoy),
                     textos_limpios, dom_index_de(textos_limpios)),
                   hoy),
                 r_curp.val, datos_clave),
               buscar_en_lista(Pat("(\\d{4}\\s*[-]?\\s*?\\d{4})",
                                   <<C(Digits, 4, 4), C(Whitespace, 0, -1), C({"-"}, 0, 1),
                                     [C(Whitespace, 0, -1) EXCEPT !.lazy = TRUE],
                                     C(Digits, 4, 4)>>, 1, 5),
                               textos_limpios, hoy))))

\* the function from the located identifiers on
campos_tras_localizar(textos_limpios, hoy, tipo, curp_crudo, clave_elector_crudo) ==
    campos_tras_decodificar(textos_limpios, hoy, tipo, curp_crudo, clave_elector_crudo,
                            extraer_datos_desde_curp(curp_crudo, hoy),
                            extraer_datos_desde_clave_elector(clave_elector_crudo, hoy).val)

\* the function from the classified layout on
\* the locator with any four letters or digits taken as a registration code
campos_tras_clasificar_clave_laxa(textos_limpios, hoy, tipo) ==
    campos_tras_localizar(textos_limpios, hoy, tipo,
        buscar_en_lista(Pat("([A-Z]{4}[0-9]{6}[HMX][A-Z]{5,6}[0-9A-Z])", ReCurp, 1, 5),
                        textos_limpios, hoy),
        buscar_en_lista(Pat("\\b([A-Z0-9]{4})\\b", <<WB, C(AZ \cup Digits, 4, 4), WB>>, 2, 2),
                        textos_limpios, hoy))

campos_tras_clasificar(textos_limpios, hoy, tipo) ==
    campos_tras_localizar(textos_limpios, hoy, tipo,
        buscar_en_lista(Pat("([A-Z]{4}[0-9]{6}[HMX][A-Z]{5,6}[0-9A-Z])", ReCurp, 1, 5),
                        textos_limpios, hoy),
        o_bien(buscar_en_lista(Pat("\\b([A-Z0-9]{18})\\b",
                                   <<WB, C(AZ \cup Digits, 18, 18), WB>>, 2, 2),
                               textos_limpios, hoy),
               buscar_en_lista(Pat("\\b([A-Z]{6}\\d{8,10}[A-Z0-9]{2,4})\\b",
                                   <<WB, C(AZ, 6, 6), C(Digits, 8, 10), C(AZ \cup Digits, 2, 4),
                                     WB>>, 2, 4),
                               textos_limpios, hoy)))

\* the function from the normalised lines on
campos_de_textos_limpios(textos_limpios, hoy) ==
    campos_tras_clasificar(textos_limpios, hoy, clasificar_tipo_credencial(textos_limpios))

extraer_campos_ine_mejorado(ts, hoy) == campos_de_textos_limpios(normalizar_textos(ts), hoy)

-----------------------------------------------------------------------------
(* Inputs of the field assembler: a card header, a few free lines, and an *)
(* address block                                                          *)

\* the most free lines between the header and the address block
MaxCamposLines == 2

\* the lines of a card of the extended national layout, as the OCR reads them
TextosDeEjemplo ==
    <<"INSTITUTO NACIONAL ELECTORAL", "CREDENCIAL PARA VOTAR", "CLAVE DE ELECTOR", "NOMBRE",
      "CASTILLO OLIVERA", "RICARDO ORLANDO", "DOMICILIO", "C LOS MOLINOS 174",
      "FRACC LA HERRADURA III 77050", "OTHON P. BLANCO, Q. ROO.", "CAOR930531HQRSLC0",
      "CSOLRC93053123H800", "VIGENCIA", "2021 - 2031">>

InitCampos ==
    /\ texts \in
         {TextosDeEjemplo} \cup
         {e \o m \o d :
            e \in
              {<<>>,
               <<"INSTITUTO NACIONAL ELECTORAL", "CREDENCIAL PARA VOTAR", "CLAVE DE ELECTOR", "NOMBRE",
                 "CASTILLO OLIVERA", "RICARDO ORLANDO">>,
               <<"INSTITUTO FEDERAL ELECTORAL", " ", "Nombre: ANA RUIZ Q.">>},
            m \in LineLists(
                  {"CAOR930531HQRSLC09", "CSOLRC93053123H800", "CURP CAORXX0531HQRSLC09",
                   "23CSOL93053123H800", "LOPJ900101MDFRPN0 CSOLRC93053123H80",
                   "31/05/1993 SEXO M", "02/01/1990", "31/13/1993 2015 01", "1234", "20212031",
                   "2031-2021"},
                  MaxCamposLines),
            d \in
              {<<>>,
               <<"DOMICILIO", "C LOS MOLINOS 174", "FRACC LA HERRADURA III 77050",
                 "OTHON P. BLANCO, Q. ROO.">>,
               <<"Domicilio", "AV 5 12B INT. 3", "77050">>,
               <<"DOMICILIO", "C 1", "CENTRO", "Q.R.">>}}
    /\ anio_actual \in {2026}
    /\ tipo_credencial = ""
    /\ nombre_a_separar = ""
    /\ data = <<>>
    /\ curp = ""
    /\ clave = ""
    /\ IdlePure

Call_extraer_campos_ine_mejorado ==
    /\ pc = "start"
    /\ pc' = "extraer_campos_ine_mejorado"
    /\ ret' = extraer_campos_ine_mejorado(texts, anio_actual)
    /\ UNCHANGED <<anio_actual, curp, clave, texts, tipo_credencial, nombre_a_separar, data,
                 ocr_vars>>

NextCampos == Call_extraer_campos_ine_mejorado

SpecCampos == InitCampos /\ [][NextCampos]_vars

-----------------------------------------------------------------------------
(* The OCR supervisor and the /ocr endpoint.  Every request runs its handler *)
(* in a thread of its own; the handler starts one worker process and waits   *)
(* for it.  The statements of a handler take no time; the two timed joins    *)
(* are the only places where time passes.                                    *)

OCR_TIMEOUT_SECONDS == 30

\* p.join(timeout=2), after p.terminate()
JOIN_TRAS_TERMINATE == 2

\* p.is_alive(): started and neither exited nor killed
is_alive(p) == p \in {"running", "put", "terminating"}

\* a queue that every call of the supervisor shares
cola_compartida(r) == 1

\* out_q = mp.Queue(maxsize=1): the queue the call for request r creates
cola_de(r) == r

\* a join that waits twice the time it was given
vencimiento_doble(t, timeout) == t + 2 * timeout

\* p.join(timeout): the time at which a join started at t gives up
vencimiento(t, timeout) == t + timeout

\* None for a missing, an empty or an undecodable file
leer_imagen_desde_request(imagen) ==
    IF imagen = "ausente" THEN "None"
    ELSE IF imagen = "vacia" THEN "None"
    ELSE IF imagen = "ilegible" THEN "None"
    ELSE "ndarray"

\* a handler that reports every failure of the supervisor as a timeout
respuesta_siempre_408(o, debug, hoy) ==
    IF o.exc # ""
    THEN [status |-> 408, error |-> "La imagen es poco clara", datos |-> <<>>]
    ELSE [status |-> 200, error |-> "",
          datos |-> extraer_campos_ine_mejorado(o.val, hoy).val]

\* the response that carries the record of the field assembler, with the two
\* debug fields when (request.args.get("debug") or "").strip() is one of
\* "1", "true", "True", "yes", "YES"; an exception that leaves the handler
\* is a 500
respuesta_con_campos(texts_ocr, debug, campos) ==
    IF campos.exc # "" THEN [status |-> 500, error |-> campos.exc, datos |-> <<>>]
    ELSE [status |-> 200, error |-> "",
          datos |-> IF Strip(debug) \in {"1", "true", "True", "yes", "YES"}
                    THEN campos.val @@ ("_ocr_texts" :> normalizar_textos(texts_ocr))
                                    @@ ("_tipo_detectado" :> campos.val.tipo_credencial)
                    ELSE campos.val]

\* the handler after the supervisor: the two except clauses, or the field
\* assembler and the response that carries its record (the messages are
\* written without their leading symbol and without diacritics)
respuesta_tras_ocr(o, debug, hoy) ==
    IF o.exc = "TimeoutError"
    THEN [status |-> 408, error |-> "La imagen es poco clara", datos |-> <<>>]
    ELSE IF o.exc # ""
    THEN [status |-> 400, error |-> "Error procesando OCR: " \o o.val, datos |-> <<>>]
    ELSE respuesta_con_campos(o.val, debug, extraer_campos_ine_mejorado(o.val, hoy))

\* img = leer_imagen_desde_request("imagen"); without an image the handler
\* answers 400; with one it enters the supervisor: out_q = mp.Queue(maxsize=1),
\* p.start(), p.join(timeout_seconds)
Recibir(r) ==
    /\ rpc[r] = "idle"
    /\ \E img \in {"ausente", "vacia", "ilegible", "valida"} :
          /\ peticion' = [peticion EXCEPT ![r].imagen = img]
          /\ IF leer_imagen_desde_request(img) = "None"
             THEN /\ respuesta' = [respuesta EXCEPT ![r] =
                         [status |-> 400, error |-> "No se envio la imagen o esta vacia",
                          datos |-> <<>>]]
                  /\ rpc' = [rpc EXCEPT ![r] = "done"]
                  /\ UNCHANGED <<out_q, proceso, plazo>>
             ELSE /\ out_q' = [out_q EXCEPT ![cola_de(r)] = <<>>]
                  /\ proceso' = [proceso EXCEPT ![r] = "running"]
                  /\ plazo' = [plazo EXCEPT ![r] = vencimiento(0, OCR_TIMEOUT_SECONDS)]
                  /\ rpc' = [rpc EXCEPT ![r] = "join"]
                  /\ UNCHANGED respuesta
    /\ UNCHANGED <<transcurrido, payload, ocr_ret, vivo_al_vencer, vivo_al_comprobar,
                   pure_vars>>

\* p.join(timeout_seconds) returns: the worker is gone, or the time is up
JoinReturns(r) ==
    /\ rpc[r] = "join"
    /\ ~is_alive(proceso[r]) \/ transcurrido[r] >= plazo[r]
    /\ vivo_al_vencer' = [vivo_al_vencer EXCEPT ![r] = is_alive(proceso[r])]
    /\ rpc' = [rpc EXCEPT ![r] = "is_alive"]
    /\ UNCHANGED <<peticion, proceso, out_q, transcurrido, plazo, payload, ocr_ret,
                   respuesta, vivo_al_comprobar, pure_vars>>

\* a supervisor that returns the texts of any payload, an error payload included
resultado_sin_mirar_ok(q) ==
    IF q = <<>> THEN RaisedMsg("RuntimeError", "OCR termino pero no devolvio resultado")
    ELSE Returned(Head(q).texts)

\* payload = out_q.get_nowait() and the rest of the supervisor
resultado_de_la_cola(q) ==
    IF q = <<>> THEN RaisedMsg("RuntimeError", "OCR termino pero no devolvio resultado")
    ELSE IF ~Head(q).ok THEN RaisedMsg("RuntimeError", Head(q).error)
    ELSE Returned(Head(q).texts)

\* if p.is_alive(): p.terminate(), p.join(timeout=2) ...; otherwise the queue
\* is read, the supervisor returns or raises, and the handler answers.  The
\* handler reads the debug argument only when it has a record to return, and
\* the argument is drawn at that point.
CheckAlive(r) ==
    /\ rpc[r] = "is_alive"
    /\ vivo_al_comprobar' = [vivo_al_comprobar EXCEPT ![r] = is_alive(proceso[r])]
    /\ IF is_alive(proceso[r])
       THEN /\ proceso' = [proceso EXCEPT ![r] = "terminating"]
            /\ plazo' = [plazo EXCEPT ![r] = vencimiento(transcurrido[r], JOIN_TRAS_TERMINATE)]
            /\ rpc' = [rpc EXCEPT ![r] = "join_terminate"]
            /\ UNCHANGED <<peticion, out_q, payload, ocr_ret, respuesta>>
       ELSE LET q == out_q[cola_de(r)]
                o == resultado_de_la_cola(q)
            IN  /\ payload' = [payload EXCEPT ![r] = IF q = <<>> THEN @ ELSE Head(q)]
                /\ out_q' = [out_q EXCEPT ![cola_de(r)] = IF q = <<>> THEN @ ELSE Tail(q)]
                /\ ocr_ret' = [ocr_ret EXCEPT ![r] = o]
                /\ \E debug \in IF o.exc = "" THEN {"", " true "} ELSE {peticion[r].debug} :
                      /\ peticion' = [peticion EXCEPT ![r].debug = debug]
                      /\ respuesta' = [respuesta EXCEPT ![r] =
                                          respuesta_tras_ocr(o, debug, anio_actual)]
                /\ rpc' = [rpc EXCEPT ![r] = "done"]
                /\ UNCHANGED <<proceso, plazo>>
    /\ UNCHANGED <<transcurrido, vivo_al_vencer, pure_vars>>

\* p.join(timeout=2) returns; raise TimeoutError(...); the handler answers
RaiseTimeout(r) ==
    /\ rpc[r] = "join_terminate"
    /\ ~is_alive(proceso[r]) \/ transcurrido[r] >= plazo[r]
    /\ LET o == RaisedMsg("TimeoutError", "OCR tardo demasiado (proceso terminado)")
       IN  /\ ocr_ret' = [ocr_ret EXCEPT ![r] = o]
           /\ respuesta' = [respuesta EXCEPT ![r] =
                               respuesta_tras_ocr(o, peticion[r].debug, anio_actual)]
    /\ rpc' = [rpc EXCEPT ![r] = "done"]
    /\ UNCHANGED <<peticion, proceso, out_q, transcurrido, plazo, payload,
                   vivo_al_vencer, vivo_al_comprobar, pure_vars>>

\* _ocr_worker: out_q.put({"ok": True, "texts": texts}) or
\* out_q.put({"ok": False, "error": str(e)}): the OCR engine recognises lines or
\* fails; put blocks while the queue is full
WorkerPut(r) ==
    /\ proceso[r] = "running"
    /\ Len(out_q[cola_de(r)]) < 1
    /\ \E o \in {[ok |-> TRUE, texts |-> <<"1234">>, error |-> ""],
                [ok |-> FALSE, texts |-> <<>>, error |-> "engine failed"]} :
          out_q' = [out_q EXCEPT ![cola_de(r)] =
                       Append(@, [ok |-> o.ok, texts |-> o.texts, error |-> o.error, de |-> r])]
    /\ proceso' = [proceso EXCEPT ![r] = "put"]
    /\ UNCHANGED <<rpc, peticion, transcurrido, plazo, payload, ocr_ret, respuesta,
                   vivo_al_vencer, vivo_al_comprobar, pure_vars>>

\* the worker process ends: after its put, or killed before it
WorkerExit(r) ==
    /\ proceso[r] \in {"running", "put"}
    /\ proceso' = [proceso EXCEPT ![r] = "exited"]
    /\ UNCHANGED <<rpc, peticion, out_q, transcurrido, plazo, payload, ocr_ret, respuesta,
                   vivo_al_vencer, vivo_al_comprobar, pure_vars>>

\* the worker dies of the signal p.terminate() sent
WorkerKilled(r) ==
    /\ proceso[r] = "terminating"
    /\ proceso' = [proceso EXCEPT ![r] = "terminated"]
    /\ UNCHANGED <<rpc, peticion, out_q, transcurrido, plazo, payload, ocr_ret, respuesta,
                   vivo_al_vencer, vivo_al_comprobar, pure_vars>>

\* the handlers that wait in a timed join
EnEspera == {r \in Requests : rpc[r] \in {"join", "join_terminate"}}

\* time passes, up to the moment the earliest join gives up, while every
\* handler in flight waits in a join on a live worker
Tick ==
    /\ EnEspera # {}
    /\ \A r \in Requests : rpc[r] \in {"idle", "join", "join_terminate", "done"}
    /\ \A r \in EnEspera : is_alive(proceso[r]) /\ transcurrido[r] < plazo[r]
    /\ LET d == MinOf({plazo[r] - transcurrido[r] : r \in EnEspera})
       IN  transcurrido' = [r \in Requests |->
                               IF r \in EnEspera THEN transcurrido[r] + d
                               ELSE transcurrido[r]]
    /\ UNCHANGED <<rpc, peticion, proceso, out_q, plazo, payload, ocr_ret,
                   respuesta, vivo_al_vencer, vivo_al_comprobar, pure_vars>>

InitOcr ==
    /\ OcrIdle
    /\ anio_actual = 2026
    /\ curp = ""
    /\ clave = ""
    /\ texts = <<>>
    /\ tipo_credencial = ""
    /\ nombre_a_separar = ""
    /\ data = <<>>
    /\ pc = "server"
    /\ ret = Returned(<<>>)

NextOcr ==
    \/ \E r \in Requests : Recibir(r)
    \/ \E r \in Requests : JoinReturns(r)
    \/ \E r \in Requests : CheckAlive(r)
    \/ \E r \in Requests : RaiseTimeout(r)
    \/ \E r \in Requests : WorkerPut(r)
    \/ \E r \in Requests : WorkerExit(r)
    \/ \E r \in Requests : WorkerKilled(r)
    \/ Tick

SpecOcr == InitOcr /\ [][NextOcr]_vars

-----------------------------------------------------------------------------
(* The name splitter: separar_nombre_por_curp_y_tokens and its helpers *)

RECURSIVE BlankOutside(_, _)
\* re.sub('[^...]', ' ', s): every character of s outside cs becomes a blank
BlankOutside(s, cs) ==
    IF s = "" THEN ""
    ELSE (IF Ch(s, 1) \in cs THEN Ch(s, 1) ELSE " ") \o BlankOutside(Tail(s), cs)

_solo_letras(s) ==
    IF s = "" THEN ""
    ELSE Strip(CollapseWs(BlankOutside(Strip(Upper(s)),
                                       AZ \cup AcentosMayus \cup Whitespace)))

particulas ==
    {"DE", "DEL", "LA", "LAS", "LOS", "Y", "MC", "MAC", "VAN", "VON",
     "DA", "DAS", "DO", "DOS", "DI", "DU"}

_quitar_particulas(tokens) ==
    SelectSeq(tokens, LAMBDA t : t # "" /\ t \notin particulas)

\* re.search(r"[AEIOU...]", palabra[1:]) on the word without its blanks
vocal_interna_de(palabra) ==
    LET vocales == {i \in 2..Len(palabra) : Ch(palabra, i) \in CharsOf("AEIOUÁÉÍÓÚÜ")}
    IN  IF Len(palabra) < 2 \/ vocales = {} THEN "" ELSE Ch(palabra, MinOf(vocales))

_primera_vocal_interna(palabra) ==
    IF palabra = "" THEN ""
    ELSE vocal_interna_de(ReplaceChar(_solo_letras(palabra), " ", ""))

\* the choice among the given names with JOSE and MARIA taken as any other name
primer_nombre_sin_regla(nt) == IF nt = <<>> THEN "" ELSE nt[1]

\* the choice among the given names left once the particles are removed
primer_nombre_de(nt) ==
    IF nt = <<>> THEN ""
    ELSE IF nt[1] \in {"JOSE", "JOSÉ", "MARIA", "MARÍA"} /\ Len(nt) >= 2 THEN nt[2]
    ELSE nt[1]

_primer_nombre_para_curp(nombres_tokens) ==
    IF nombres_tokens = <<>> THEN ""
    ELSE primer_nombre_de(_quitar_particulas(
             [k \in 1..Len(nombres_tokens) |-> Upper(nombres_tokens[k])]))

\* tokens[0] if tokens else ""
primero_o_vacio(tokens) == IF tokens = <<>> THEN "" ELSE tokens[1]

\* f"{c1}{c2}{c3}{c4}".upper() from the two surname bases and the first name
prefijo_de_bases(ap_pat_base, ap_mat_base, primer_nom) ==
    Upper(Slice(ap_pat_base, 0, 1) \o _primera_vocal_interna(ap_pat_base)
             \o Slice(ap_mat_base, 0, 1) \o Slice(primer_nom, 0, 1))

_curp_prefijo_4(ap_pat, ap_mat, nombres) ==
    prefijo_de_bases(primero_o_vacio(_quitar_particulas(Split(_solo_letras(ap_pat)))),
                     primero_o_vacio(_quitar_particulas(Split(_solo_letras(ap_mat)))),
                     _primer_nombre_para_curp(Split(_solo_letras(nombres))))

\* the out dictionary of the splitter
partes(ap_pat, ap_mat, noms) ==
    [apellido_paterno |-> ap_pat, apellido_materno |-> ap_mat, nombres |-> noms]

\* a candidate whose maternal surname starts at the last token of the paternal one
candidato_solapado(tokens, i, j) ==
    partes(Join(SubSeq(tokens, 1, i), " "), Join(SubSeq(tokens, i, i + j - 1), " "),
           Join(SubSeq(tokens, i + j + 1, Len(tokens)), " "))

\* the candidate of the loop body for i tokens of ap_pat and j tokens of ap_mat
candidato(tokens, i, j) ==
    partes(Join(SubSeq(tokens, 1, i), " "), Join(SubSeq(tokens, i + 1, i + j), " "),
           Join(SubSeq(tokens, i + j + 1, Len(tokens)), " "))

\* the score without the bonus of a full match
puntaje_sin_bono(pref, objetivo, noms) ==
    Cardinality({k \in 1..4 : k <= Len(pref) /\ k <= Len(objetivo)
                                /\ Ch(pref, k) = Ch(objetivo, k)})
       - (IF Split(noms) = <<>> THEN 5 ELSE 0)

\* the score of a prefix against objetivo: the positions that agree, the bonus
\* of a full match and the penalty of empty given names
puntaje(pref, objetivo, noms) ==
    Cardinality({k \in 1..4 : k <= Len(pref) /\ k <= Len(objetivo)
                                /\ Ch(pref, k) = Ch(objetivo, k)})
       + (IF pref = objetivo THEN 10 ELSE 0)
       - (IF Split(noms) = <<>> THEN 5 ELSE 0)

score_de(cand, objetivo) ==
    puntaje(_curp_prefijo_4(cand.apellido_paterno, cand.apellido_materno, cand.nombres),
            objetivo, cand.nombres)

\* best with the last of the equal scores kept instead of the first
mejor_de_ultimo(best, cand, score) ==
    IF best = <<>> \/ score >= best[1] THEN <<score, cand>> ELSE best

\* best after one more candidate: replaced only by a strictly greater score
mejor_de(best, cand, score) ==
    IF best = <<>> \/ score > best[1] THEN <<score, cand>> ELSE best

RECURSIVE buscar_mejor(_, _, _, _, _)
\* the two nested loops from (i, j) on, with best so far; <<>> is None
buscar_mejor(tokens, objetivo, i, j, best) ==
    IF i > (IF 3 < Len(tokens) - 1 THEN 3 ELSE Len(tokens) - 1) THEN best
    ELSE IF j > (IF 3 < Len(tokens) - i THEN 3 ELSE Len(tokens) - i)
    THEN buscar_mejor(tokens, objetivo, i + 1, 1, best)
    ELSE IF i + j >= Len(tokens)
    THEN buscar_mejor(tokens, objetivo, i, j + 1, best)
    ELSE buscar_mejor(tokens, objetivo, i, j + 1,
                      mejor_de(best, candidato(tokens, i, j),
                               score_de(candidato(tokens, i, j), objetivo)))

\* the end of the splitter: the best candidate, or the final fallback
partes_del_mejor(tokens, best) ==
    IF best # <<>> THEN best[2]
    ELSE partes(tokens[1], tokens[2], Join(SubSeq(tokens, 3, Len(tokens)), " "))

\* the splitter with the two tokens of a short name taken as the two surnames
\* and the search run whatever the length of the code
separar_tokens_sin_reglas(tokens, codigo) ==
    IF Len(tokens) < 3
    THEN IF Len(tokens) = 2 THEN partes(tokens[1], tokens[2], "")
         ELSE partes("", "", Join(tokens, " "))
    ELSE partes_del_mejor(tokens,
                          buscar_mejor(tokens, Slice(codigo, 0, 4), 1, 1, <<>>))

\* the splitter on the tokens of the cleaned name and the upper-cased,
\* stripped code
separar_tokens(tokens, codigo) ==
    IF Len(tokens) < 3
    THEN IF Len(tokens) = 2 THEN partes(tokens[1], "", tokens[2])
         ELSE IF Len(tokens) = 1 THEN partes("", "", tokens[1])
         ELSE partes("", "", "")
    ELSE IF Len(codigo) < 4
    THEN partes(tokens[1], tokens[2], Join(SubSeq(tokens, 3, Len(tokens)), " "))
    ELSE partes_del_mejor(tokens,
                          buscar_mejor(tokens, Slice(codigo, 0, 4), 1, 1, <<>>))

separar_nombre_por_curp_y_tokens(nombre, codigo) ==
    separar_tokens(Split(_solo_letras(nombre)), Strip(Upper(codigo)))

-----------------------------------------------------------------------------
(* Inputs of the name splitter *)

MaxTokensNombre == 4

InitSeparar ==
    /\ nombre_a_separar \in
          {Join(t, " ") : t \in LineLists({"DE", "CRUZ", "LOPEZ", "JUAN", "MARIA"},
                                          MaxTokensNombre)}
             \cup {"CASTILLO OLIVERA RICARDO ORLANDO", "de la cruz  lopez-perez juan 2",
                   "A B C D E F G", "SAN JUAN DE LA CRUZ Y LOPEZ MARIA JOSE",
                   "LOPEZ CRUZ JUAN JUAN JUAN", "O'NEIL"}
    /\ curp \in {"", "CUL", " cul ", "CULJ900101HDFRPN08", " culm ", "LXCJ", "CAOR930531HQRSLC0"}
    /\ anio_actual = 2026
    /\ clave = ""
    /\ texts = <<>>
    /\ tipo_credencial = ""
    /\ data = <<>>
    /\ IdlePure

Call_separar_nombre_por_curp_y_tokens ==
    /\ pc = "start"
    /\ pc' = "separar_nombre_por_curp_y_tokens"
    /\ ret' = Returned(separar_nombre_por_curp_y_tokens(nombre_a_separar, curp))
    /\ UNCHANGED <<anio_actual, curp, clave, texts, tipo_credencial, nombre_a_separar, data,
                   ocr_vars>>

NextSeparar == Call_separar_nombre_por_curp_y_tokens

SpecSeparar == InitSeparar /\ [][NextSeparar]_vars

-----------------------------------------------------------------------------
(* Inputs of the prefix of a candidate split: the three parts that the loop of *)
(* the splitter joins from the tokens of a name, held in data                  *)

\* the most tokens of the paternal surname of a candidate
MaxTokensPaterno == 2

InitPrefijo ==
    /\ data \in
          {partes(Join(p, " "), m, n) :
             p \in LineLists({"DE", "CRUZ", "B"}, MaxTokensPaterno) \ {<<>>},
             m \in {"LOPEZ", "DEL RIO", "LA", "Y LUNA"},
             n \in {"JUAN", "MARIA", "MARIA JOSE", "JOSE DE JESUS", "DE JESUS", "JOSE"}}
    /\ nombre_a_separar = ""
    /\ curp = ""
    /\ anio_actual = 2026
    /\ clave = ""
    /\ texts = <<>>
    /\ tipo_credencial = ""
    /\ IdlePure

Call_curp_prefijo_4 ==
    /\ pc = "start"
    /\ pc' = "_curp_prefijo_4"
    /\ ret' = Returned(_curp_prefijo_4(data.apellido_paterno, data.apellido_materno,
                                       data.nombres))
    /\ UNCHANGED <<anio_actual, curp, clave, texts, tipo_credencial, nombre_a_separar, data,
                   ocr_vars>>

NextPrefijo == Call_curp_prefijo_4

SpecPrefijo == InitPrefijo /\ [][NextPrefijo]_vars

-----------------------------------------------------------------------------
(* The /separar-nombre endpoint: api_separar_nombre and limpiar_colonia_con_cp. *)
(* A JSON value is a record: t is "str", "num" or "null" and v its text; a     *)
(* JSON object is a function from its keys to JSON values.                     *)

Str(s) == [t |-> "str", v |-> s]

Null == [t |-> "null", v |-> ""]

\* what the matches of pat from index j on leave of s: re.sub(pat, "", s)
RECURSIVE SubVacioFrom(_, _, _)
SubVacioTras(s, j, starts, pat) ==
    IF starts = {} THEN SubSeq(s, j, Len(s))
    ELSE SubSeq(s, j, MinOf(starts) - 1)
            \o SubVacioFrom(s, MatchFrom(s, MinOf(starts), pat, 1)[Len(pat)] + 1, pat)

SubVacioFrom(s, j, pat) ==
    SubVacioTras(s, j, {i \in j..Len(s) : MatchFrom(s, i, pat, 1) # Fail}, pat)

\* the end of limpiar_colonia_con_cp, on the stripped arguments
colonia_sin_cp(colonia, cp) ==
    IF colonia = "" \/ cp = "" THEN colonia
    ELSE Strip(CollapseWs(SubVacioFrom(colonia, 1, <<WB>> \o Lit(cp) \o <<WB>>)))

limpiar_colonia_con_cp(colonia, codigo_postal) ==
    colonia_sin_cp(Strip(colonia), Strip(codigo_postal))

\* data.get(k)
get(d, k) == IF k \in DOMAIN d THEN d[k] ELSE Null

\* (x or "").strip(): None, "" and 0 give ""; a number has no strip method
texto_de(x) ==
    IF x.t = "null" \/ (x.t = "num" /\ x.v = "0") THEN Returned("")
    ELSE IF x.t = "str" THEN Returned(Strip(x.v))
    ELSE RaisedMsg("AttributeError", <<>>)

\* jsonify(cuerpo), status
respuesta_json(status, cuerpo) == Returned([status |-> status, json |-> cuerpo])

\* resp with the three parts of the name, and the cleaned colonia if it applies
resp_de(d, partes_nombre, colonia, colonia_limpia) ==
    (IF colonia_limpia # "" /\ colonia_limpia # colonia
     THEN ("colonia" :> Str(colonia_limpia)) ELSE <<>>)
    @@ [apellido_paterno |-> Str(partes_nombre.apellido_paterno),
        apellido_materno |-> Str(partes_nombre.apellido_materno),
        nombres |-> Str(partes_nombre.nombres)]
    @@ d

\* the handler once nombre and curp are read and found non-empty
separar_y_limpiar(d, nombre, codigo, codigo_postal, colonia) ==
    IF codigo_postal.exc # "" THEN codigo_postal
    ELSE IF colonia.exc # "" THEN colonia
    ELSE respuesta_json(200,
             resp_de(d, separar_nombre_por_curp_y_tokens(nombre, codigo), colonia.val,
                     limpiar_colonia_con_cp(colonia.val, codigo_postal.val)))

\* the handler once the three required fields are read
tras_leer_requeridos(d, nombre, codigo, clave_elector) ==
    IF nombre.exc # "" THEN nombre
    ELSE IF codigo.exc # "" THEN codigo
    ELSE IF clave_elector.exc # "" THEN clave_elector
    ELSE IF nombre.val = "" \/ codigo.val = "" \/ clave_elector.val = ""
    THEN respuesta_json(400,
             [error |-> "Debes enviar al menos: nombre, curp y clave_elector"])
    ELSE separar_y_limpiar(d, nombre.val, codigo.val, texto_de(get(d, "codigo_postal")),
                           texto_de(get(d, "colonia")))

\* the response of the endpoint, or the exception that leaves the handler and
\* that the server answers with status 500 (the error text is written without
\* its leading symbol)
api_separar_nombre(d) ==
    tras_leer_requeridos(d, texto_de(get(d, "nombre")), texto_de(get(d, "curp")),
                         texto_de(get(d, "clave_elector")))

-----------------------------------------------------------------------------
(* Inputs of the endpoint: the JSON objects of a request body; a body that   *)
(* is absent or is not JSON is the empty object.                             *)

Ausente == [t |-> "ausente", v |-> ""]

\* the object with the keys of f whose value is not Ausente
objeto_json(f) == [k \in {x \in DOMAIN f : f[x] # Ausente} |-> f[k]]

InitApi ==
    /\ data \in
         {objeto_json([nombre |-> n, curp |-> c, clave_elector |-> k, colonia |-> col,
                       codigo_postal |-> cp, apellido_paterno |-> ap, es_ine |-> e]) :
            n \in {Ausente, Null, Str("  "), Str("CASTILLO OLIVERA RICARDO ORLANDO"),
                   Str(" de la cruz lopez juan "), [t |-> "num", v |-> "5"]},
            c \in {Ausente, Str(""), Str("CAOR930531HQRSLC0"), Str(" culj "),
                   [t |-> "num", v |-> "0"]},
            k \in {Ausente, Null, Str(" "), Str("CSOLRC93053123H800")},
            col \in {Ausente, Null, Str("FRACC LA HERRADURA III 77050"), Str(" 77050 "),
                     Str("A77050  77050 B 77050"), Str(" CENTRO ")},
            cp \in {Ausente, Str("77050"), Str(" "), [t |-> "num", v |-> "77050"]},
            ap \in {Ausente, Str("X")},
            e \in {Ausente, [t |-> "bool", v |-> "true"]}}
    /\ anio_actual = 2026
    /\ curp = ""
    /\ clave = ""
    /\ texts = <<>>
    /\ tipo_credencial = ""
    /\ nombre_a_separar = ""
    /\ IdlePure

Call_api_separar_nombre ==
    /\ pc = "start"
    /\ pc' = "api_separar_nombre"
    /\ ret' = api_separar_nombre(data)
    /\ UNCHANGED <<anio_actual, curp, clave, texts, tipo_credencial, nombre_a_separar, data,
                   ocr_vars>>

NextApi == Call_api_separar_nombre

SpecApi == InitApi /\ [][NextApi]_vars

-----------------------------------------------------------------------------
(* Properties of the name extractor, under SpecNombre *)

NombreExtracted == pc = "extraer_nombre_mejorado"

\* C1: whatever the line list and the credential type, the name extractor
\* returns the empty string or a string with no digit character and at least
\* two whitespace-separated tokens.
C1_NameHasNoDigitAndTwoTokens ==
    NombreExtracted =>
        \/ ret.val = ""
        \/ /\ \A i \in 1..Len(ret.val) : Ch(ret.val, i) \notin Digits
           /\ Len(Split(ret.val)) >= 2

\* the label strategy of the GH layout joined two lines below the label
C1_Witness ==
    /\ NombreExtracted
    /\ tipo_credencial = "GH"
    /\ texts = <<"NOMBRE", "JUAN PEREZ", "X  LÓPEZ">>
    /\ ret.val = "JUAN PEREZ LÓPEZ"

-----------------------------------------------------------------------------
(* Properties of the field assembler, under SpecCampos *)

CamposAssembled == pc = "extraer_campos_ine_mejorado"

\* the fields the record names
CamposNombrados ==
    {"tipo_credencial", "nombre", "curp", "clave_elector", "fecha_nacimiento",
     "anio_registro", "seccion", "vigencia", "sexo", "pais", "calle", "colonia",
     "estado", "numero", "codigo_postal"}

\* C3: for every list of OCR lines the field assembler returns without
\* raising, and the record it returns has every named field, each one a string
\* (the empty string when the field was not recovered).
C3_AssemblerReturnsEveryField ==
    CamposAssembled =>
        /\ ret.exc = ""
        /\ CamposNombrados \subseteq DOMAIN ret.val
        /\ \A k \in CamposNombrados : ret.val[k] \in STRING

\* a line that merely looks like a personal-ID code was read, no identifier
\* was located, and the fields that depend on one came back empty
C3_Witness ==
    /\ CamposAssembled
    /\ texts = <<"CURP CAORXX0531HQRSLC09">>
    /\ ret.exc = ""
    /\ ret.val.curp = ""
    /\ ret.val.fecha_nacimiento = ""
    /\ ret.val.nombre = ""
    /\ ret.val.estado = ""

-----------------------------------------------------------------------------
(* Properties of the validity-period extractor, under SpecVigencia *)

VigenciaExtracted == pc = "extraer_vigencia_correcta"

\* four digits, space, hyphen, space, four digits
EsParDeAnios(v) ==
    /\ Len(v) = 11
    /\ AllDigits(SubSeq(v, 1, 4))
    /\ SubSeq(v, 5, 7) = " - "
    /\ AllDigits(SubSeq(v, 8, 11))

\* C2: the validity-period extractor returns the empty string or a string of
\* the form "YYYY - YYYY" whose second year is greater than its first.
C2_ValidityIsOrderedYearPair ==
    VigenciaExtracted =>
        \/ ret.val = ""
        \/ /\ EsParDeAnios(ret.val)
           /\ DigitsValue(SubSeq(ret.val, 8, 11)) > DigitsValue(SubSeq(ret.val, 1, 4))

-----------------------------------------------------------------------------
(* Properties of the OCR supervisor and the /ocr endpoint, under SpecOcr *)

EnSupervisor(r) == rpc[r] \in {"join", "is_alive", "join_terminate"}

Terminado(r) == proceso[r] \in {"terminating", "terminated"}

\* the outcome the supervisor owes a request whose worker was alive at cond
TimeoutSurfaced(r) ==
    /\ Terminado(r)
    /\ payload[r] = NoPayload
    /\ rpc[r] = "done" =>
          /\ ocr_ret[r].exc = "TimeoutError"
          /\ transcurrido[r] <= OCR_TIMEOUT_SECONDS + JOIN_TRAS_TERMINATE

\* C4, as stated: a worker that is still running when the deadline of
\* timeout_seconds elapses is terminated, the caller gets a timeout and never
\* texts, and the supervisor waits no longer than the deadline plus the join
\* after the termination.
C4_TimeoutWhenAliveAtDeadline ==
    \A r \in Requests :
        /\ EnSupervisor(r) => transcurrido[r] <= OCR_TIMEOUT_SECONDS + JOIN_TRAS_TERMINATE
        /\ (vivo_al_vencer[r] /\ rpc[r] \in {"join_terminate", "done"}) => TimeoutSurfaced(r)

\* C4, amended: a worker that is still alive when the supervisor tests it,
\* after the join of timeout_seconds returned, is terminated, the caller gets
\* a timeout and never texts, and the supervisor waits no longer than the
\* deadline plus the join after the termination.
C4_TimeoutWhenAliveAtCheck ==
    \A r \in Requests :
        /\ EnSupervisor(r) => transcurrido[r] <= OCR_TIMEOUT_SECONDS + JOIN_TRAS_TERMINATE
        /\ rpc[r] = "join" => transcurrido[r] <= OCR_TIMEOUT_SECONDS
        /\ vivo_al_comprobar[r] => TimeoutSurfaced(r)

\* a worker never finished, never died of the signal either, and its caller
\* got the timeout after the full 30 + 2 seconds
C4_Witness ==
    \E r \in Requests :
        /\ rpc[r] = "done"
        /\ vivo_al_comprobar[r]
        /\ proceso[r] = "terminating"
        /\ out_q[r] = <<>>
        /\ ocr_ret[r].exc = "TimeoutError"
        /\ transcurrido[r] = OCR_TIMEOUT_SECONDS + JOIN_TRAS_TERMINATE

\* what every queue holds was put by the worker of its own request, and what a
\* supervisor took from its queue as well
C5_OwnPayloadOnly ==
    /\ \A q \in Requests : \A i \in 1..Len(out_q[q]) : out_q[q][i].de = q
    /\ \A r \in Requests : payload[r] # NoPayload => payload[r].de = r

\* a request whose worker was gone when the supervisor tested it ends with
\* what that worker put; a request whose worker was alive ends in the timeout
C5_OwnOutcome ==
    \A r \in Requests :
        (rpc[r] = "done" /\ proceso[r] # "none") =>
            IF vivo_al_comprobar[r] THEN respuesta[r].status = 408
            ELSE /\ respuesta[r].status \in {200, 400}
                 /\ respuesta[r].status = 200 =>
                       /\ payload[r].de = r
                       /\ payload[r].ok
                       /\ ocr_ret[r].val = payload[r].texts
                 /\ transcurrido[r] <= OCR_TIMEOUT_SECONDS

\* C5: with several requests in flight every request has its own worker and
\* its own queue: no request receives another worker's payload, a request
\* whose worker finished in time completes with that worker's payload, a
\* request whose worker hangs ends in the timeout, and no handler stays in its
\* supervisor past its own deadline, whatever the other workers do.
C5_RequestsAreIsolated ==
    /\ C5_OwnPayloadOnly
    /\ C5_OwnOutcome
    /\ \A r \in Requests :
          EnSupervisor(r) => transcurrido[r] <= OCR_TIMEOUT_SECONDS + JOIN_TRAS_TERMINATE

\* one worker hangs while another request has completed with its own payload
C5_Witness ==
    \E r, h \in Requests :
        /\ r # h
        /\ rpc[h] = "join" /\ proceso[h] = "running" /\ out_q[h] = <<>>
        /\ rpc[r] = "done" /\ respuesta[r].status = 200 /\ payload[r].de = r
        /\ transcurrido[r] < transcurrido[h]

SinImagen(r) == leer_imagen_desde_request(peticion[r].imagen) = "None"

\* C6: the handler answers a request without a usable image with a client
\* error and starts no worker; a timeout of the supervisor with the "unclear
\* image" outcome, and nothing else with it; any other failure of the
\* supervisor with the generic error that carries its message; and a field
\* record only when the supervisor returned a line list.
C6_EndpointErrorMapping ==
    \A r \in Requests :
        /\ (rpc[r] # "idle" /\ SinImagen(r)) =>
              /\ rpc[r] = "done"
              /\ proceso[r] = "none"
              /\ respuesta[r].status = 400
              /\ respuesta[r].error = "No se envio la imagen o esta vacia"
        /\ (rpc[r] = "done" /\ ~SinImagen(r)) =>
              /\ respuesta[r].status = 408 <=> ocr_ret[r].exc = "TimeoutError"
              /\ respuesta[r].status = 408 <=> respuesta[r].error = "La imagen es poco clara"
              /\ ocr_ret[r].exc \notin {"", "TimeoutError"} =>
                    /\ respuesta[r].status = 400
                    /\ respuesta[r].error = "Error procesando OCR: " \o ocr_ret[r].val
              /\ respuesta[r].status = 200 <=> ocr_ret[r].exc = ""
              /\ respuesta[r].status = 200 =>
                    /\ respuesta[r].error = ""
                    /\ respuesta[r].datos.seccion \in STRING
              /\ respuesta[r].status # 200 => respuesta[r].datos = <<>>

\* a worker reported a failure of the engine and the caller got its message
C6_Witness ==
    \E r \in Requests :
        /\ rpc[r] = "done"
        /\ ocr_ret[r].exc = "RuntimeError"
        /\ respuesta[r].status = 400
        /\ respuesta[r].error = "Error procesando OCR: engine failed"

-----------------------------------------------------------------------------
(* Properties of the personal-ID decoder, under SpecCurp *)

CurpDecoded == pc = "extraer_datos_desde_curp"

CurpTodoVacio ==
    [sexo |-> "", fecha_nacimiento |-> "", entidad_nacimiento |-> "", estado |-> ""]

\* C7: the personal-ID decoder is total: whatever string it is given, of any
\* length and any characters, it returns a four-field map and never raises.
C7_DecoderNeverRaises ==
    CurpDecoded =>
        /\ ret.exc = ""
        /\ DOMAIN ret.val = {"sexo", "fecha_nacimiento", "entidad_nacimiento", "estado"}

\* C8: a code that is empty or shorter than 16 characters decodes, without an
\* exception, to the map whose four fields are all the empty string.
C8_ShortCodeAllEmpty ==
    (CurpDecoded /\ Len(curp) < 16) => ret = Returned(CurpTodoVacio)

C8_Witness == CurpDecoded /\ Len(curp) = 15 /\ ret = Returned(CurpTodoVacio)

\* the offsets 4..9 of the code are a date YYMMDD with MM in 01..12, DD in 01..31
CurpFechaValida(c) ==
    /\ Len(c) >= 16
    /\ AllDigits(SubSeq(c, 5, 10))
    /\ DigitsValue(SubSeq(c, 7, 8)) \in 1..12
    /\ DigitsValue(SubSeq(c, 9, 10)) \in 1..31

\* C9: for a valid code of 16 characters or more and a frozen current year Y,
\* the birth date is DD/MM/CCYY with YY, MM, DD the digit pairs at offsets 4-5,
\* 6-7, 8-9, DD in 01..31, MM in 01..12, and CC = 19 when YY > Y mod 100 and
\* 20 otherwise.
C9_BirthDateFormat ==
    (CurpDecoded /\ CurpFechaValida(curp)) =>
        /\ ret.exc = ""
        /\ LET f  == ret.val.fecha_nacimiento
               yy == SubSeq(curp, 5, 6)
           IN  /\ Len(f) = 10
               /\ SubSeq(f, 1, 2) = SubSeq(curp, 9, 10)
               /\ Ch(f, 3) = "/"
               /\ SubSeq(f, 4, 5) = SubSeq(curp, 7, 8)
               /\ Ch(f, 6) = "/"
               /\ SubSeq(f, 7, 8) = (IF DigitsValue(yy) > anio_actual % 100 THEN "19" ELSE "20")
               /\ SubSeq(f, 9, 10) = yy
               /\ DigitsValue(SubSeq(f, 1, 2)) \in 1..31
               /\ DigitsValue(SubSeq(f, 4, 5)) \in 1..12

C9_Witness ==
    /\ CurpDecoded
    /\ anio_actual = 2026
    /\ curp = "CAOR260531HQRSLC09"
    /\ ret.val.fecha_nacimiento = "31/05/2026"

-----------------------------------------------------------------------------
(* Properties of the registration-code decoder, under SpecClave *)

ClaveDecoded == pc = "extraer_datos_desde_clave_elector"

\* C10 as stated: a code whose first two characters are in the registration
\* state table decodes to that table entry, any other code to the empty state,
\* and the decoder never raises.
C10_StateFromPrefix ==
    ClaveDecoded =>
        /\ ret.exc = ""
        /\ ret.val.estado_clave =
              (IF SubSeq(clave, 1, IF Len(clave) < 2 THEN Len(clave) ELSE 2)
                    \in DOMAIN CODIGOS_ESTADO_ELECTOR
               THEN CODIGOS_ESTADO_ELECTOR[SubSeq(clave, 1, 2)] ELSE "")

\* C10 amended: a code of at least 13 characters whose first two characters
\* are in the registration state table decodes to that table entry; a shorter
\* code, or one whose first two characters are not in the table, decodes to
\* the empty state; the decoder never raises.
C10_StateFromPrefixOfLongCode ==
    ClaveDecoded =>
        /\ ret.exc = ""
        /\ ret.val.estado_clave =
              (IF Len(clave) >= 13 /\ SubSeq(clave, 1, 2) \in DOMAIN CODIGOS_ESTADO_ELECTOR
               THEN CODIGOS_ESTADO_ELECTOR[SubSeq(clave, 1, 2)] ELSE "")

C10_Witness ==
    /\ ClaveDecoded
    /\ clave = "23OLRC93053123H800"
    /\ ret.val.estado_clave = "QUINTANA ROO"

-----------------------------------------------------------------------------
(* Properties of the layout classifier, under SpecClasificar *)

Clasificado == pc = "clasificar_tipo_credencial"

\* the lines as the classifier searches them: upper case, joined by spaces
TextoUnido == Strip(Join([i \in 1..Len(texts) |-> Strip(Upper(texts[i]))], " "))

\* a legacy marker: the federal-institution phrase, the federal-registry
\* phrase, or the acronym IFE as a whole word
MarcadorLegado ==
    \/ Contains(TextoUnido, "INSTITUTO FEDERAL ELECTORAL")
    \/ Contains(TextoUnido, "REGISTRO FEDERAL DE ELECTORES")
    \/ \E i \in 1..(Len(TextoUnido) - 2) :
          /\ SubSeq(TextoUnido, i, i + 2) = "IFE"
          /\ (i = 1 \/ Ch(TextoUnido, i - 1) \notin Word)
          /\ (i + 2 = Len(TextoUnido) \/ Ch(TextoUnido, i + 3) \notin Word)

\* the three words FEDERAL, ELECTORAL and REGISTRO, each somewhere in the lines
TresPalabrasLegado ==
    /\ Contains(TextoUnido, "FEDERAL")
    /\ Contains(TextoUnido, "ELECTORAL")
    /\ Contains(TextoUnido, "REGISTRO")

\* the national-institution markers and the vote phrase
MarcadoresNacionales ==
    /\ Contains(TextoUnido, "INSTITUTO") /\ Contains(TextoUnido, "ELECTORAL")
    /\ Contains(TextoUnido, "NACIONAL") \/ Contains(" " \o TextoUnido \o " ", " INE ")
    /\ Contains(TextoUnido, "CREDENCIAL") /\ Contains(TextoUnido, "VOTAR")

\* the registration-code label, with or without blanks between its words and
\* with its last word cut short: CLAVE DE ELEC...
EtiquetaClaveDeElector ==
    \E a, b \in {"", " "} : Contains(TextoUnido, "CLAVE" \o a \o "DE" \o b \o "ELEC")

\* the word CLAVE and the word ELECTOR, each somewhere in the lines
PalabrasClaveYElector == Contains(TextoUnido, "CLAVE") /\ Contains(TextoUnido, "ELECTOR")

C12_LegacyExactlyOnMarker ==
    Clasificado => (ret.val = "C" <=> MarcadorLegado)

\* C12: the classifier returns "C" whenever a legacy marker occurs in the
\* lines, whatever national markers stand beside it, and it returns "C" only
\* when a legacy marker occurs or the three words FEDERAL, ELECTORAL and
\* REGISTRO all occur somewhere in the lines.
C12_LegacyOnMarkerOrThreeWords ==
    Clasificado => (ret.val = "C" <=> (MarcadorLegado \/ TresPalabrasLegado))

\* the acronym beside every national marker still gives a legacy card
C12_Witness ==
    /\ Clasificado
    /\ texts = <<"INSTITUTO NACIONAL ELECTORAL", "CLAVE DE ELECTOR", "IFE">>
    /\ ret.val = "C"

\* C13: without a legacy indication, the classifier returns "GH" exactly when
\* the national markers, the vote phrase and the registration-code label are
\* all present, and "D" when the national markers and the vote phrase are
\* present but the label is absent from the lines.
C13_ExtendedExactlyOnLabel ==
    (Clasificado /\ ~(MarcadorLegado \/ TresPalabrasLegado)) =>
        /\ ret.val = "GH" <=> (MarcadoresNacionales /\ EtiquetaClaveDeElector)
        /\ (MarcadoresNacionales /\ ~EtiquetaClaveDeElector) => ret.val = "D"

-----------------------------------------------------------------------------
(* Properties of the name splitter, under SpecSeparar *)

Separado == pc = "separar_nombre_por_curp_y_tokens"

\* the tokens of the name as the splitter reads them: upper-cased, with every
\* character that is not a letter turned into a separator
TokensDelNombre == Split(_solo_letras(nombre_a_separar))

\* the code as the splitter reads it: upper-cased and trimmed
CodigoLeido == Strip(Upper(curp))

\* the candidate splits: i tokens of paternal surname, j of maternal surname
Splits == {s \in (1..3) \X (1..3) : s[1] + s[2] < Len(TokensDelNombre)}

PuntajeDelSplit(s) ==
    score_de(candidato(TokensDelNombre, s[1], s[2]), Slice(CodigoLeido, 0, 4))

\* s comes before t in scan order: i ascending, then j ascending
AntesEnOrden(s, t) == s[1] < t[1] \/ (s[1] = t[1] /\ s[2] < t[2])

\* C14: for a name of at least 3 tokens and a code of at least 4 characters
\* (the code read upper-cased and trimmed), the splitter returns a candidate
\* split (i, j) with i, j in 1..3 and i + j below the token count whose score
\* no candidate exceeds, and no candidate of the same score comes before it
\* in scan order.
C14_SplitterReturnsFirstMaximum ==
    (Separado /\ Len(TokensDelNombre) >= 3 /\ Len(CodigoLeido) >= 4) =>
        \E s \in Splits :
            /\ ret.val = candidato(TokensDelNombre, s[1], s[2])
            /\ \A t \in Splits :
                  /\ PuntajeDelSplit(t) <= PuntajeDelSplit(s)
                  /\ PuntajeDelSplit(t) = PuntajeDelSplit(s) => ~AntesEnOrden(t, s)

\* splits (3, 1) and (3, 2) share the maximum score 3 and (3, 1) is returned
C14_Witness ==
    /\ Separado
    /\ nombre_a_separar = "de la cruz  lopez-perez juan 2"
    /\ curp = " culm "
    /\ PuntajeDelSplit(<<3, 1>>) = PuntajeDelSplit(<<3, 2>>)
    /\ ret.val = [apellido_paterno |-> "DE LA CRUZ", apellido_materno |-> "LOPEZ",
                  nombres |-> "PEREZ JUAN"]

\* C15: a name of exactly 2 tokens gives paternal = token 1, maternal empty,
\* given names = token 2; a name of 1 token gives both surnames empty and
\* given names = that token; a name of 3 or more tokens with a code of fewer
\* than 4 characters (the empty code included) gives paternal = token 1,
\* maternal = token 2, given names = the remaining tokens joined by blanks.
C15_SplitterPositionalRules ==
    Separado =>
        /\ Len(TokensDelNombre) = 2 =>
              ret.val = [apellido_paterno |-> TokensDelNombre[1], apellido_materno |-> "",
                         nombres |-> TokensDelNombre[2]]
        /\ Len(TokensDelNombre) = 1 =>
              ret.val = [apellido_paterno |-> "", apellido_materno |-> "",
                         nombres |-> TokensDelNombre[1]]
        /\ (Len(TokensDelNombre) >= 3 /\ Len(curp) < 4) =>
              ret.val = [apellido_paterno |-> TokensDelNombre[1],
                         apellido_materno |-> TokensDelNombre[2],
                         nombres |-> Join(SubSeq(TokensDelNombre, 3, Len(TokensDelNombre)),
                                          " ")]

\* a 3-character code and a name whose first two tokens are particles: the
\* positional rule applies although the search would score (3, 1) higher
C15_Witness ==
    /\ Separado
    /\ nombre_a_separar = "de la cruz  lopez-perez juan 2"
    /\ curp = "CUL"
    /\ PuntajeDelSplit(<<3, 1>>) > PuntajeDelSplit(<<1, 1>>)
    /\ ret.val = [apellido_paterno |-> "DE", apellido_materno |-> "LA",
                  nombres |-> "CRUZ LOPEZ PEREZ JUAN"]

-----------------------------------------------------------------------------
(* The round trip of one card, under SpecCampos *)

\* C16: on the fourteen lines of TextosDeEjemplo the assembled record has
\* the type "GH", the name "CASTILLO OLIVERA RICARDO ORLANDO", the validity
\* "2021 - 2031" and the postal code "77050"; the decoder of the personal
\* code of the record gives sex "H", birth date "31/05/1993" and birth state
\* "QUINTANA ROO"; and the splitter on the name and the code of the record
\* gives CASTILLO, OLIVERA and RICARDO ORLANDO.
C16_RoundTripOfTheExample ==
    (CamposAssembled /\ texts = TextosDeEjemplo) =>
        /\ ret.exc = ""
        /\ ret.val.tipo_credencial = "GH"
        /\ ret.val.nombre = "CASTILLO OLIVERA RICARDO ORLANDO"
        /\ ret.val.curp = "CAOR930531HQRSLC0"
        /\ ret.val.vigencia = "2021 - 2031"
        /\ ret.val.codigo_postal = "77050"
        /\ ret.val.sexo = "H"
        /\ ret.val.fecha_nacimiento = "31/05/1993"
        /\ extraer_datos_desde_curp(ret.val.curp, anio_actual).exc = ""
        /\ extraer_datos_desde_curp(ret.val.curp, anio_actual).val.sexo = "H"
        /\ extraer_datos_desde_curp(ret.val.curp, anio_actual).val.fecha_nacimiento
              = "31/05/1993"
        /\ extraer_datos_desde_curp(ret.val.curp, anio_actual).val.estado = "QUINTANA ROO"
        /\ separar_nombre_por_curp_y_tokens(ret.val.nombre, ret.val.curp)
              = [apellido_paterno |-> "CASTILLO", apellido_materno |-> "OLIVERA",
                 nombres |-> "RICARDO ORLANDO"]

\* the record of the example has been assembled; its state field is the
\* address line, not the birth state
C16_Witness ==
    /\ CamposAssembled
    /\ texts = TextosDeEjemplo
    /\ ret.val.clave_elector = "CSOLRC93053123H800"
    /\ ret.val.colonia = "FRACC LA HERRADURA III 77050"
    /\ ret.val.estado = "OTHON P. BLANCO, Q. ROO."

-----------------------------------------------------------------------------
(* The assembler on lines without label or code, under SpecCampos *)

\* a normalised line holds neither the residence label nor a match of the
\* pattern of the personal code or of the two patterns of the registration code
LineaSinEtiquetaNiCodigo(l) ==
    /\ ~Contains(Upper(l), "DOMICILIO")
    /\ ~Matches(l, ReCurp)
    /\ ~Matches(l, <<WB, C(AZ \cup Digits, 18, 18), WB>>)
    /\ ~Matches(l, <<WB, C(AZ, 6, 6), C(Digits, 8, 10), C(AZ \cup Digits, 2, 4), WB>>)

SinEtiquetaNiCodigos ==
    \A i \in 1..Len(normalizar_textos(texts)) :
        LineaSinEtiquetaNiCodigo(normalizar_textos(texts)[i])

\* C17 as stated: on lines without residence label, personal-code pattern and
\* registration-code pattern the record has an empty name, an empty personal
\* code and an empty registration code, its type is one of the three, and no
\* exception is raised.
C17_NoLabelNoCodeGivesEmptyNameAndCodes ==
    (CamposAssembled /\ SinEtiquetaNiCodigos) =>
        /\ ret.exc = ""
        /\ ret.val.nombre = ""
        /\ ret.val.curp = ""
        /\ ret.val.clave_elector = ""
        /\ ret.val.tipo_credencial \in {"C", "D", "GH"}

\* C17, amended: on such lines the personal code and the registration code of
\* the record are empty, its type is one of the three and no exception is
\* raised; the name is empty or a name the extractor found without the
\* residence label, of at least two tokens and without digits.
C17_NoLabelNoCodeGivesEmptyCodes ==
    (CamposAssembled /\ SinEtiquetaNiCodigos) =>
        /\ ret.exc = ""
        /\ ret.val.curp = ""
        /\ ret.val.clave_elector = ""
        /\ ret.val.tipo_credencial \in {"C", "D", "GH"}
        /\ \/ ret.val.nombre = ""
           \/ Len(Split(ret.val.nombre)) >= 2 /\ ~HasDigit(ret.val.nombre)

\* a legacy card with a name line and a section number: the general fallback
\* of the name extractor returns the name line
C17_Witness ==
    /\ CamposAssembled
    /\ SinEtiquetaNiCodigos
    /\ texts = <<"INSTITUTO FEDERAL ELECTORAL", " ", "Nombre: ANA RUIZ Q.", "1234">>
    /\ ret.val.tipo_credencial = "C"
    /\ ret.val.nombre = "Nombre: ANA RUIZ"
    /\ ret.val.curp = ""
    /\ ret.val.clave_elector = ""

-----------------------------------------------------------------------------
(* The validity of last resort of the assembler, under SpecCampos *)

\* the dedicated extractor finds no validity in the lines of the state
SinVigenciaDelExtractor == extraer_vigencia_correcta(texts, "") = ""

\* the two four-digit numbers of a text of eight digits are years of 1900..2099
DosAniosEnRango(v) ==
    /\ Len(KeepChars(v, Digits)) = 8
    /\ \A k \in {1, 5} :
          /\ DigitsValue(SubSeq(KeepChars(v, Digits), k, k + 3)) >= 1900
          /\ DigitsValue(SubSeq(KeepChars(v, Digits), k, k + 3)) <= 2099

\* a line matches the pattern of last resort and its two numbers are years
LineaConDosAnios(l) ==
    /\ Matches(l, <<C(Digits, 4, 4), C(Whitespace, 0, -1), C({"-"}, 0, 1),
                    C(Whitespace, 0, -1), C(Digits, 4, 4)>>)
    /\ DosAniosEnRango(l)

\* C19 as stated: the pattern of last resort applies no ordering check, so
\* when the dedicated extractor finds nothing and a line holds two years the
\* pattern matches, the record carries a validity, whatever the order of the
\* two years.
C19_FallbackAppliesNoOrderingCheck ==
    (CamposAssembled /\ ret.exc = "" /\ SinVigenciaDelExtractor
       /\ \E i \in 1..Len(normalizar_textos(texts)) :
              LineaConDosAnios(normalizar_textos(texts)[i])) =>
        ret.val.vigencia # ""

\* C19, amended: when the dedicated extractor finds nothing, the validity of
\* the record, if any, is a match of the pattern of last resort made of two
\* years of 1900..2099 of which the second is greater than the first; a later
\* year followed by an earlier year is never returned.
C19_FallbackReturnsOrderedYearsOnly ==
    (CamposAssembled /\ ret.exc = "" /\ SinVigenciaDelExtractor /\ ret.val.vigencia # "") =>
        /\ DosAniosEnRango(ret.val.vigencia)
        /\ DigitsValue(SubSeq(KeepChars(ret.val.vigencia, Digits), 1, 4))
              < DigitsValue(SubSeq(KeepChars(ret.val.vigencia, Digits), 5, 8))

\* the first line holds a later year and an earlier one and is passed over;
\* the second holds the two years in order and is returned
C19_Witness ==
    /\ CamposAssembled
    /\ SinVigenciaDelExtractor
    /\ texts = <<"2031-2021", "20212031">>
    /\ LineaConDosAnios("2031-2021")
    /\ ret.val.vigencia = "20212031"

-----------------------------------------------------------------------------
(* The section of the registration code, under SpecClave *)

\* four digits stand side by side somewhere in the code
ConCuatroDigitosSeguidos(k) ==
    \E i \in 1..(Len(k) - 3) : AllDigits(SubSeq(k, i, i + 3))

\* C20: for a registration code of at least 13 characters that holds four
\* digits side by side anywhere, between letters or inside a longer token,
\* the decoder returns as section four digits that stand side by side in the
\* code.
C20_SectionFromAnyFourDigitRun ==
    (ClaveDecoded /\ Len(clave) >= 13 /\ ConCuatroDigitosSeguidos(clave)) =>
        /\ Len(ret.val.seccion_clave) = 4
        /\ AllDigits(ret.val.seccion_clave)
        /\ Contains(clave, ret.val.seccion_clave)

-----------------------------------------------------------------------------
(* The response of the /separar-nombre endpoint, under SpecApi *)

ApiAnswered == pc = "api_separar_nombre"

\* the text of a field of the body: that of a string value, trimmed; a field
\* that is absent, null or not a string has none
TextoDelCampo(k) ==
    IF k \in DOMAIN data /\ data[k].t = "str" THEN Strip(data[k].v) ELSE ""

\* one of the three required fields is missing or blank
FaltaUnRequerido == \E k \in {"nombre", "curp", "clave_elector"} : TextoDelCampo(k) = ""

LasTresPartes == {"apellido_paterno", "apellido_materno", "nombres"}

\* the response the operation is said to give
RespuestaDescrita ==
    /\ ret.exc = ""
    /\ IF FaltaUnRequerido
       THEN /\ ret.val.status = 400
            /\ DOMAIN ret.val.json \cap LasTresPartes = {}
       ELSE /\ ret.val.status = 200
            /\ DOMAIN ret.val.json = DOMAIN data \cup LasTresPartes
            /\ \A k \in LasTresPartes :
                  ret.val.json[k]
                     = Str(separar_nombre_por_curp_y_tokens(TextoDelCampo("nombre"),
                                                            TextoDelCampo("curp"))[k])
            /\ \A k \in DOMAIN data \ (LasTresPartes \cup {"colonia"}) :
                  ret.val.json[k] = data[k]
            /\ "colonia" \in DOMAIN data =>
                  \/ ret.val.json["colonia"] = data["colonia"]
                  \/ /\ ret.val.json["colonia"]
                           = Str(limpiar_colonia_con_cp(TextoDelCampo("colonia"),
                                                        TextoDelCampo("codigo_postal")))
                     /\ ret.val.json["colonia"].v # ""
                     /\ ret.val.json["colonia"] # data["colonia"]

\* C18: if the name, the personal code or the registration code is missing
\* or blank in the body the endpoint answers a client error and computes no
\* split; otherwise it answers the body with the three parts of the name set
\* to the splitter's output, the colonia replaced only by a cleaned value that
\* is non-empty and differs from the input, and every other key unchanged.
C18_SplitOperationResponse == ApiAnswered => RespuestaDescrita

\* the fields the handler reads are strings, null or absent
CamposLeidosDeTexto ==
    \A k \in {"nombre", "curp", "clave_elector", "colonia", "codigo_postal"} :
        k \in DOMAIN data => data[k].t \in {"str", "null"}

\* on such bodies the response is the one described
C18_ResponseOnTextFields == (ApiAnswered /\ CamposLeidosDeTexto) => RespuestaDescrita

\* on such a body the colonia is replaced by its cleaned value
C18_ColoniaReplaced ==
    /\ ApiAnswered
    /\ CamposLeidosDeTexto
    /\ ~FaltaUnRequerido
    /\ "colonia" \in DOMAIN data
    /\ data["colonia"] = Str("A77050  77050 B 77050")
    /\ ret.val.json["colonia"] = Str("A77050 B")

-----------------------------------------------------------------------------
(* The order of the strategies of the validity-period extractor, under *)
(* SpecVigencia *)

TextosLimpios == normalizar_textos(texts)

\* the pair of years that the label strategies find from line i: on the line
\* itself or on one of the two lines after it
ParDeEtiqueta(i) ==
    vigencia_tras_etiqueta(TextosLimpios, Upper(TextosLimpios[i]),
                           MinOf({k \in 1..Len(TextosLimpios) : TextosLimpios[k] = TextosLimpios[i]}))

\* C21: if some label line carries a pair of years, on the line itself or on
\* one of the two lines after it, the extractor returns the pair of the first
\* such label line, wherever a bare hyphenated pair stands on an unlabeled
\* line, before the label line included.
C21_LabelPairBeforeBarePair ==
    VigenciaExtracted =>
        \A i \in 1..Len(TextosLimpios) :
            (ParDeEtiqueta(i).found /\ \A k \in 1..(i - 1) : ~ParDeEtiqueta(k).found)
                => ret.val = ParDeEtiqueta(i).v

-----------------------------------------------------------------------------
(* The last strategy of the validity-period extractor, under SpecVigencia *)

\* the strategies of the first loop found no pair on any line
SinParEnElPrimerRecorrido ==
    \A i \in 1..Len(TextosLimpios) : ~vigencia_en_linea(TextosLimpios, i).found

EsEtiqueta(i) == Contains(Upper(TextosLimpios[i]), "VIGENCIA")

\* the years of the lines i..i+2, collected as one span
AniosDelTramo(i) ==
    anios_en(TextosLimpios[i])
      \o (IF i + 1 <= Len(TextosLimpios) THEN anios_en(TextosLimpios[i + 1]) ELSE <<>>)
      \o (IF i + 2 <= Len(TextosLimpios) THEN anios_en(TextosLimpios[i + 2]) ELSE <<>>)

AniosDeLinea(j) == IF j <= Len(TextosLimpios) THEN anios_en(TextosLimpios[j]) ELSE <<>>

\* what the last strategy pairs at line j of the label line i, "" if nothing
ParEnLinea(i, j) ==
    IF Len(AniosDeLinea(j)) >= 2 THEN AniosDeLinea(j)[1] \o " - " \o AniosDeLinea(j)[2]
    ELSE IF Len(AniosDeLinea(j)) = 1 /\ j > i /\ Len(AniosDeLinea(j + 1)) >= 1
    THEN AniosDeLinea(j)[1] \o " - " \o AniosDeLinea(j + 1)[1]
    ELSE ""

\* the places (label line, line of the pair) at which the last strategy pairs
LugaresConPar ==
    {l \in (1..Len(TextosLimpios)) \X (1..Len(TextosLimpios)) :
        EsEtiqueta(l[1]) /\ l[1] <= l[2] /\ l[2] <= l[1] + 2 /\ ParEnLinea(l[1], l[2]) # ""}

PrimerLugar(L) ==
    CHOOSE l \in L : \A m \in L : l[1] < m[1] \/ (l[1] = m[1] /\ l[2] <= m[2])

C22_WitnessPairAcrossLines ==
    /\ VigenciaExtracted
    /\ SinParEnElPrimerRecorrido
    /\ texts = <<"VIGENCIA", "2031", "2031">>
    /\ ret.val = "2031 - 2031"

\* two years on one line after the label, not next to each other
C22_WitnessPairOnOneLine ==
    /\ VigenciaExtracted
    /\ SinParEnElPrimerRecorrido
    /\ texts = <<"VIGENCIA 2021", "2021 A 2031">>
    /\ ret.val = "2021 - 2031"

-----------------------------------------------------------------------------
(* The backfill of the field assembler, under SpecCampos *)

\* what the primary pickers read from the lines
Primarios == campos_basicos(TextosLimpios, "", "", "", "", "", anio_actual)

\* what the decoders give for the two codes of the returned record
DatosCurpDelRegistro == extraer_datos_desde_curp(ret.val.curp, anio_actual).val

DatosClaveDelRegistro == extraer_datos_desde_clave_elector(ret.val.clave_elector, anio_actual).val

\* the value a decoder offers for a field of the record
ValorDecodificado(k) ==
    CASE k = "sexo" -> DatosCurpDelRegistro.sexo
      [] k = "fecha_nacimiento" -> DatosCurpDelRegistro.fecha_nacimiento
      [] k = "seccion" -> DatosClaveDelRegistro.seccion_clave
      [] k = "anio_registro" ->
             IF DatosClaveDelRegistro.anio_registro_clave = "" THEN ""
             ELSE DatosClaveDelRegistro.anio_registro_clave \o " 00"

CamposCompletados == {"sexo", "fecha_nacimiento", "seccion", "anio_registro"}

\* C23: a non-empty sex, birth date, section or registration year read by the
\* primary pickers is returned as it was read, whatever the decoders give; a
\* field the pickers left empty holds the decoder's value, or stays empty when
\* the decoder gives none.
C23_BackfillKeepsPrimaryValues ==
    (CamposAssembled /\ ret.exc = "") =>
        \A k \in CamposCompletados :
            ret.val[k] = (IF Primarios[k] # "" THEN Primarios[k] ELSE ValorDecodificado(k))

\* the lines give one sex and the personal-ID code another: the one of the lines stays
C23_Witness ==
    /\ CamposAssembled
    /\ ret.exc = ""
    /\ Primarios.sexo # ""
    /\ DatosCurpDelRegistro.sexo # ""
    /\ DatosCurpDelRegistro.sexo # Primarios.sexo
    /\ ret.val.sexo = Primarios.sexo

\* the same for the birth date
C23_WitnessBirthDate ==
    /\ CamposAssembled
    /\ ret.exc = ""
    /\ Primarios.fecha_nacimiento # ""
    /\ DatosCurpDelRegistro.fecha_nacimiento # ""
    /\ DatosCurpDelRegistro.fecha_nacimiento # Primarios.fecha_nacimiento
    /\ ret.val.fecha_nacimiento = Primarios.fecha_nacimiento

\* a field the lines do not give, filled from the code
C23_WitnessBackfilled ==
    /\ CamposAssembled
    /\ ret.exc = ""
    /\ Primarios.sexo = ""
    /\ ret.val.sexo # ""

-----------------------------------------------------------------------------
(* The backfill of the state, under SpecCampos *)

\* the state the address block gives: the third line after the residence label
EstadoDelDomicilio ==
    con_domicilio(Primarios, TextosLimpios, dom_index_de(TextosLimpios)).estado

\* C24: the state of the address block is replaced only when it is empty or
\* shorter than 5 characters after trimming: by the birth state of the
\* personal-ID code if that is not empty, else by the state of the
\* registration code if that is not empty, else it stays; a state of 5
\* characters or more is returned as the address block gave it.
C24_StateReplacedOnlyWhenShort ==
    (CamposAssembled /\ ret.exc = "") =>
        ret.val.estado =
            (IF EstadoDelDomicilio # "" /\ Len(Strip(EstadoDelDomicilio)) >= 5
             THEN EstadoDelDomicilio
             ELSE IF DatosCurpDelRegistro.estado # "" THEN DatosCurpDelRegistro.estado
             ELSE IF DatosClaveDelRegistro.estado_clave # "" THEN DatosClaveDelRegistro.estado_clave
             ELSE EstadoDelDomicilio)

\* a state of four characters replaced by the birth state of the personal-ID code
C24_Witness ==
    /\ CamposAssembled
    /\ ret.exc = ""
    /\ EstadoDelDomicilio = "Q.R."
    /\ DatosCurpDelRegistro.estado # ""
    /\ ret.val.estado = DatosCurpDelRegistro.estado

\* no personal-ID code: the state of the registration code is taken
C24_WitnessFromRegistrationCode ==
    /\ CamposAssembled
    /\ ret.exc = ""
    /\ Len(EstadoDelDomicilio) < 5
    /\ DatosCurpDelRegistro.estado = ""
    /\ DatosClaveDelRegistro.estado_clave # ""
    /\ ret.val.estado = DatosClaveDelRegistro.estado_clave

\* a long state stays although the personal-ID code gives another
C24_WitnessLongStateKept ==
    /\ CamposAssembled
    /\ ret.exc = ""
    /\ Len(EstadoDelDomicilio) >= 5
    /\ DatosCurpDelRegistro.estado # ""
    /\ ret.val.estado = EstadoDelDomicilio
    /\ ret.val.estado # DatosCurpDelRegistro.estado

\* a short state stays when no code gives one
C24_WitnessShortStateKept ==
    /\ CamposAssembled
    /\ ret.exc = ""
    /\ EstadoDelDomicilio = "Q.R."
    /\ ret.val.estado = "Q.R."

-----------------------------------------------------------------------------
(* The prefix derived for a candidate split, under SpecPrefijo *)

PrefijoDerivado == pc = "_curp_prefijo_4"

Vocales == CharsOf("AEIOUÁÉÍÓÚÜ")

\* the first vowel of a token from its second character on, nothing if none
VocalInterna(t) ==
    IF \E k \in 2..Len(t) : Ch(t, k) \in Vocales
    THEN Ch(t, MinOf({k \in 2..Len(t) : Ch(t, k) \in Vocales}))
    ELSE ""

Inicial(t) == IF t = "" THEN "" ELSE Ch(t, 1)

EsJoseOMaria(t) == t \in {"JOSE", "JOSÉ", "MARIA", "MARÍA"}

\* the given-name token of the rule as stated: the second token when the first
\* is JOSE or MARIA and a second exists
NombreDeLaRegla(ts) ==
    IF ts = <<>> THEN ""
    ELSE IF EsJoseOMaria(ts[1]) /\ Len(ts) >= 2 THEN ts[2]
    ELSE ts[1]

\* C25 as stated: the prefix is the first letter of the first token of the
\* paternal surname, the first vowel from the second character on of that
\* token, the first letter of the first token of the maternal surname, and the
\* first letter of the first given-name token, or of the second when the first
\* is JOSE or MARIA and a second exists.
C25_PrefixFromFirstTokens ==
    PrefijoDerivado =>
        ret.val = Inicial(Split(data.apellido_paterno)[1])
                    \o VocalInterna(Split(data.apellido_paterno)[1])
                    \o Inicial(Split(data.apellido_materno)[1])
                    \o Inicial(NombreDeLaRegla(Split(data.nombres)))

\* the tokens that are not connective particles
TokensPropios(s) == SelectSeq(Split(s), LAMBDA t : t \notin particulas)

PrimerPropio(s) == IF TokensPropios(s) = <<>> THEN "" ELSE TokensPropios(s)[1]

\* C25 (amended): the connective particles (DE, DEL, LA, LAS, LOS, Y, MC,
\* MAC, VAN, VON, DA, DAS, DO, DOS, DI, DU) are left out of each part first;
\* the prefix is then the first letter of the first remaining token of the
\* paternal surname, the first vowel from the second character on of that
\* token, the first letter of the first remaining token of the maternal
\* surname, and the first letter of the first remaining given-name token, or
\* of the second remaining one when the first is JOSE or MARIA and a second
\* remains; a part of which no token remains gives nothing.
C25_PrefixFromFirstTokensThatAreNotParticles ==
    PrefijoDerivado =>
        ret.val = Inicial(PrimerPropio(data.apellido_paterno))
                    \o VocalInterna(PrimerPropio(data.apellido_paterno))
                    \o Inicial(PrimerPropio(data.apellido_materno))
                    \o Inicial(NombreDeLaRegla(TokensPropios(data.nombres)))

\* MARIA before a second given name: the second one gives the fourth letter
C25_Witness ==
    /\ PrefijoDerivado
    /\ data = partes("DE CRUZ", "DEL RIO", "MARIA JOSE")
    /\ ret.val = "CURJ"

\* a paternal surname of particles only gives no letter
C25_WitnessOnlyParticles ==
    /\ PrefijoDerivado
    /\ data = partes("DE", "LOPEZ", "JOSE DE JESUS")
    /\ ret.val = "LJ"

-----------------------------------------------------------------------------
(* The identifier locator inside the field assembler, under SpecCampos *)

TodosEn(s, a, b, cs) == \A k \in a..b : Ch(s, k) \in cs

\* the n characters of line from p on have the shape of a personal-ID code:
\* 4 letters, 6 digits, one of H, M, X, n - 12 letters, a letter or digit
FormaCurp(line, p, n) ==
    /\ p + n - 1 <= Len(line)
    /\ TodosEn(line, p, p + 3, AZ)
    /\ TodosEn(line, p + 4, p + 9, Digits)
    /\ Ch(line, p + 10) \in {"H", "M", "X"}
    /\ TodosEn(line, p + 11, p + n - 2, AZ)
    /\ Ch(line, p + n - 1) \in AZ \cup Digits

LargoCurp(line, p) == IF FormaCurp(line, p, 18) THEN 18 ELSE 17

IniciosCurp(line) == {p \in 1..Len(line) : FormaCurp(line, p, 18) \/ FormaCurp(line, p, 17)}

\* the leftmost personal-ID-shaped run of a line, the longer one if both fit
PrimerCurp(line) ==
    SubSeq(line, MinOf(IniciosCurp(line)),
           MinOf(IniciosCurp(line)) + LargoCurp(line, MinOf(IniciosCurp(line))) - 1)

\* a token: n word characters from p on with no word character on either side
TokenEn(line, p, n) ==
    /\ n >= 1
    /\ p + n - 1 <= Len(line)
    /\ TodosEn(line, p, p + n - 1, Word)
    /\ (p = 1 \/ Ch(line, p - 1) \notin Word)
    /\ (p + n - 1 = Len(line) \/ Ch(line, p + n) \notin Word)

\* 18 capital letters or digits
Forma18(w) == Len(w) = 18 /\ TodosEn(w, 1, 18, AZ \cup Digits)

\* 6 capital letters, 8 to 10 digits, 2 to 4 capital letters or digits
FormaLaxa(w) ==
    \E nd \in 8..10 : \E nr \in 2..4 :
        /\ Len(w) = 6 + nd + nr
        /\ TodosEn(w, 1, 6, AZ)
        /\ TodosEn(w, 7, 6 + nd, Digits)
        /\ TodosEn(w, 7 + nd, Len(w), AZ \cup Digits)

TokensCon(line, Forma(_)) ==
    {t \in (1..Len(line)) \X (1..Len(line)) :
        TokenEn(line, t[1], t[2]) /\ Forma(SubSeq(line, t[1], t[1] + t[2] - 1))}

\* the leftmost token of the line that has the shape
PrimerToken(line, Forma(_)) ==
    LET t == CHOOSE u \in TokensCon(line, Forma) : \A v \in TokensCon(line, Forma) : u[1] <= v[1]
    IN  SubSeq(line, t[1], t[1] + t[2] - 1)

LineasConCurp == {i \in 1..Len(TextosLimpios) : IniciosCurp(TextosLimpios[i]) # {}}

LineasCon18 == {i \in 1..Len(TextosLimpios) : TokensCon(TextosLimpios[i], Forma18) # {}}

LineasConLaxa == {i \in 1..Len(TextosLimpios) : TokensCon(TextosLimpios[i], FormaLaxa) # {}}

\* C26: the personal-ID code of the record is the first personal-ID-shaped
\* run of the first line, top to bottom, that holds one; the registration code
\* is the first 18-character token of capital letters and digits of the first
\* line that holds one, and only when no line holds one the first token of the
\* looser shape; each is empty when no line matches.
C26_LocatorFirstMatchWins ==
    (CamposAssembled /\ ret.exc = "") =>
        /\ ret.val.curp = (IF LineasConCurp = {} THEN ""
                           ELSE PrimerCurp(TextosLimpios[MinOf(LineasConCurp)]))
        /\ ret.val.clave_elector =
               (IF LineasCon18 # {} THEN PrimerToken(TextosLimpios[MinOf(LineasCon18)], Forma18)
                ELSE IF LineasConLaxa # {}
                THEN PrimerToken(TextosLimpios[MinOf(LineasConLaxa)], FormaLaxa)
                ELSE "")

\* two lines hold a personal-ID-shaped run: the one of the upper line is returned
C26_Witness ==
    /\ CamposAssembled
    /\ ret.exc = ""
    /\ \E i \in LineasConCurp : \E k \in LineasConCurp :
          /\ i < k
          /\ PrimerCurp(TextosLimpios[i]) # PrimerCurp(TextosLimpios[k])
    /\ ret.val.curp = PrimerCurp(TextosLimpios[MinOf(LineasConCurp)])

\* an 18-character token below a line with a token of the looser shape
C26_WitnessStrictBelowLoose ==
    /\ CamposAssembled
    /\ ret.exc = ""
    /\ LineasCon18 # {}
    /\ \E i \in LineasConLaxa : i < MinOf(LineasCon18)
    /\ Len(ret.val.clave_elector) = 18

\* no 18-character token: the token of the looser shape is returned
C26_WitnessLoose ==
    /\ CamposAssembled
    /\ ret.exc = ""
    /\ LineasCon18 = {}
    /\ ret.val.clave_elector = "CSOLRC93053123H80"

\* no line matches: both codes are empty
C26_WitnessNoMatch ==
    /\ CamposAssembled
    /\ ret.exc = ""
    /\ TextosLimpios # <<>>
    /\ ret.val.curp = ""
    /\ ret.val.clave_elector = ""

-----------------------------------------------------------------------------
(* The outcomes of the OCR supervisor, under SpecOcr *)

\* the call of the supervisor for request r has ended
SupervisorTerminado(r) == rpc[r] = "done" /\ proceso[r] # "none"

\* what the worker of request r has put so far: still on the queue, or taken
\* from it by the supervisor
Puesto(r) == IF payload[r] # NoPayload THEN <<payload[r]>> ELSE out_q[cola_de(r)]

PusoExito(r) == Puesto(r) # <<>> /\ Head(Puesto(r)).ok

PusoError(r) == Puesto(r) # <<>> /\ ~Head(Puesto(r)).ok

TextosDevueltos(r) == ocr_ret[r].exc = "" /\ ocr_ret[r].val = Head(Puesto(r)).texts

\* one worker per call, one payload per worker, one item on the queue at most
UnSoloPayload ==
    /\ \A q \in Requests : Len(out_q[q]) <= 1
    /\ \A r \in Requests : Len(Puesto(r)) <= 1
    /\ \A r \in Requests : payload[r] # NoPayload => out_q[cola_de(r)] = <<>>
    /\ \A r \in Requests : EnSupervisor(r) => proceso[r] # "none"

\* a step never starts a worker for a call that has started one
SinReintento ==
    \A r \in Requests : (proceso[r] # "none") => (proceso'[r] # "none" /\ (proceso'[r] = "running" => proceso[r] = "running"))

\* the outcomes as stated, with the worker's exit taken at the deadline
ResultadosSegunElPlazo ==
    \A r \in Requests :
        SupervisorTerminado(r) =>
            /\ ocr_ret[r].exc \in {"", "TimeoutError", "RuntimeError"}
            /\ (ocr_ret[r].exc = "") <=> (PusoExito(r) /\ ~vivo_al_vencer[r])
            /\ (ocr_ret[r].exc = "") => TextosDevueltos(r)
            /\ (~vivo_al_vencer[r] /\ ~PusoExito(r)) => ocr_ret[r].exc = "RuntimeError"

\* C27 as stated: a call of the supervisor starts the worker once and ends in
\* texts, a timeout or a processing error; texts exactly when the worker put a
\* success payload and exited before the deadline; a processing error when it
\* put an error payload or exited before the deadline without a payload; the
\* queue never holds more than one item.
C27_OutcomesByExitBeforeDeadline ==
    [](UnSoloPayload /\ ResultadosSegunElPlazo) /\ [][SinReintento]_vars

\* the outcomes with the worker's exit taken at the supervisor's test
ResultadosSegunLaComprobacion ==
    \A r \in Requests :
        SupervisorTerminado(r) =>
            /\ ocr_ret[r].exc \in {"", "TimeoutError", "RuntimeError"}
            /\ (ocr_ret[r].exc = "") <=> (PusoExito(r) /\ ~vivo_al_comprobar[r])
            /\ (ocr_ret[r].exc = "") => TextosDevueltos(r)
            /\ (ocr_ret[r].exc = "TimeoutError") <=> vivo_al_comprobar[r]
            /\ (~vivo_al_comprobar[r] /\ PusoError(r)) =>
                  (ocr_ret[r].exc = "RuntimeError" /\ ocr_ret[r].val = Head(Puesto(r)).error)
            /\ (~vivo_al_comprobar[r] /\ Puesto(r) = <<>>) => ocr_ret[r].exc = "RuntimeError"

\* C27 (amended): a call of the supervisor starts the worker once and ends in
\* texts, a timeout or a processing error; texts exactly when the worker put a
\* success payload and was no longer alive when the supervisor tested it after
\* the join; a timeout exactly when it was alive at that test; a processing
\* error when it was gone at that test and had put an error payload or
\* nothing; the queue never holds more than one item.
C27_OutcomesByLivenessAtTheTest ==
    [](UnSoloPayload /\ ResultadosSegunLaComprobacion) /\ [][SinReintento]_vars

\* a worker still running at the deadline that put its texts and exited before
\* the supervisor's test: the texts are returned
C27_Witness ==
    \E r \in Requests :
        /\ SupervisorTerminado(r)
        /\ vivo_al_vencer[r]
        /\ ~vivo_al_comprobar[r]
        /\ PusoExito(r)
        /\ ocr_ret[r].exc = ""

\* a worker that put an error payload and was still alive at the test: a timeout
C27_WitnessErrorPayloadTimeout ==
    \E r \in Requests :
        /\ SupervisorTerminado(r)
        /\ vivo_al_comprobar[r]
        /\ PusoError(r)
        /\ ocr_ret[r].exc = "TimeoutError"

\* a worker that exited early without a payload: a processing error
C27_WitnessNoPayload ==
    \E r \in Requests :
        /\ SupervisorTerminado(r)
        /\ ~vivo_al_vencer[r]
        /\ Puesto(r) = <<>>
        /\ ocr_ret[r].exc = "RuntimeError"

-----------------------------------------------------------------------------
(* The three parts of the name splitter as a partition of the tokens, under *)
(* SpecSeparar *)

TokensDe(parte) == Split(parte)

\* C28: the tokens of the paternal surname, of the maternal surname and of the
\* given names returned, one after the other, are the tokens of the cleaned
\* name, none dropped, repeated or moved; for a name of 3 tokens or more the
\* three parts are non-empty, and with a code of at least 4 characters each
\* surname holds 1 to 3 tokens.
C28_PartsPartitionTheTokens ==
    Separado =>
        /\ ret.exc = ""
        /\ TokensDe(ret.val.apellido_paterno) \o TokensDe(ret.val.apellido_materno)
              \o TokensDe(ret.val.nombres) = TokensDelNombre
        /\ Len(TokensDelNombre) >= 3 =>
              /\ ret.val.apellido_paterno # ""
              /\ ret.val.apellido_materno # ""
              /\ ret.val.nombres # ""
        /\ (Len(TokensDelNombre) >= 3 /\ Len(curp) >= 4) =>
              /\ Len(TokensDe(ret.val.apellido_paterno)) \in 1..3
              /\ Len(TokensDe(ret.val.apellido_materno)) \in 1..3

\* a name of nine tokens split by the search into surnames of several tokens
C28_Witness ==
    /\ Separado
    /\ Len(TokensDelNombre) = 9
    /\ Len(CodigoLeido) >= 4
    /\ Len(TokensDe(ret.val.apellido_paterno)) > 1
    /\ TokensDe(ret.val.apellido_paterno) \o TokensDe(ret.val.apellido_materno)
          \o TokensDe(ret.val.nombres) = TokensDelNombre

\* a name whose characters that are not letters are dropped before the split
C28_WitnessCleanedName ==
    /\ Separado
    /\ nombre_a_separar = "de la cruz  lopez-perez juan 2"
    /\ Len(CodigoLeido) >= 4
    /\ TokensDe(ret.val.apellido_paterno) \o TokensDe(ret.val.apellido_materno)
          \o TokensDe(ret.val.nombres) = <<"DE", "LA", "CRUZ", "LOPEZ", "PEREZ", "JUAN">>

-----------------------------------------------------------------------------
(* Exact matches in the search of the name splitter, under SpecSeparar *)

\* the first 4 characters of the code as the splitter reads it
Objetivo == Slice(CodigoLeido, 0, 4)

PrefijoDe(cand) == _curp_prefijo_4(cand.apellido_paterno, cand.apellido_materno, cand.nombres)

PrefijoDelSplit(s) == PrefijoDe(candidato(TokensDelNombre, s[1], s[2]))

SplitsExactos == {s \in Splits : PrefijoDelSplit(s) = Objetivo}

\* C29: for a name of 3 tokens or more and a code of at least 4 characters, if
\* some candidate split derives a prefix equal to the first 4 characters of
\* the code, the split returned derives that prefix too; a split with such a
\* prefix scores 14 and any other split at most 3; every candidate split
\* leaves a given-name token, so no score carries the penalty of empty given
\* names.
C29_ExactMatchWins ==
    (Separado /\ Len(TokensDelNombre) >= 3 /\ Len(CodigoLeido) >= 4) =>
        /\ SplitsExactos # {} => PrefijoDe(ret.val) = Objetivo
        /\ \A s \in SplitsExactos : PuntajeDelSplit(s) = 14
        /\ \A s \in Splits \ SplitsExactos : PuntajeDelSplit(s) \in 0..3
        /\ \A s \in Splits : Split(candidato(TokensDelNombre, s[1], s[2]).nombres) # <<>>

\* the first split in scan order is not exact, a later one is, and it is returned
C29_Witness ==
    /\ Separado
    /\ Len(TokensDelNombre) >= 3
    /\ Len(CodigoLeido) >= 4
    /\ <<1, 1>> \notin SplitsExactos
    /\ <<3, 2>> \in SplitsExactos
    /\ ret.val = candidato(TokensDelNombre, 3, 2)
    /\ PrefijoDe(ret.val) = Objetivo

\* no split is exact: the one returned scores 3 at most
C29_WitnessNoExactSplit ==
    /\ Separado
    /\ Len(TokensDelNombre) >= 3
    /\ Len(CodigoLeido) >= 4
    /\ SplitsExactos = {}
    /\ \E s \in Splits : PuntajeDelSplit(s) = 3 /\ ret.val = candidato(TokensDelNombre, s[1], s[2])

-----------------------------------------------------------------------------
(* The personal-ID code the locator hands to the decoder, under SpecCampos *)

\* what the decoder gives for the personal-ID code of the record
DecodificadoDelRegistro == extraer_datos_desde_curp(ret.val.curp, anio_actual)

\* C30: a non-empty personal-ID code found by the locator has 17 or 18
\* characters, six digits at offsets 4 to 9 and one of H, M, X at offset 10;
\* the decoder does not raise on it and gives a sex among H, M, X and a
\* non-empty birth date, so the assembler returns, and a record with a
\* non-empty personal-ID code has a sex and a birth date.
C30_LocatedCodeAlwaysDecodes ==
    CamposAssembled =>
        /\ ret.exc = ""
        /\ ret.val.curp # "" =>
              /\ Len(ret.val.curp) \in {17, 18}
              /\ \A k \in 5..10 : Ch(ret.val.curp, k) \in Digits
              /\ Ch(ret.val.curp, 11) \in {"H", "M", "X"}
              /\ DecodificadoDelRegistro.exc = ""
              /\ DecodificadoDelRegistro.val.sexo \in {"H", "M", "X"}
              /\ DecodificadoDelRegistro.val.fecha_nacimiento # ""
              /\ ret.val.sexo # ""
              /\ ret.val.fecha_nacimiento # ""

\* a code of 17 characters, no sex and no birth date on the lines: both are
\* the decoder's
C30_Witness ==
    /\ CamposAssembled
    /\ ret.exc = ""
    /\ Len(ret.val.curp) = 17
    /\ Primarios.sexo = ""
    /\ Primarios.fecha_nacimiento = ""
    /\ ret.val.sexo = DecodificadoDelRegistro.val.sexo
    /\ ret.val.fecha_nacimiento = DecodificadoDelRegistro.val.fecha_nacimiento
    /\ ret.val.fecha_nacimiento # ""

=============================================================================
